---------------------------- MODULE Spec2Model ----------------------------
(***************************************************************************)
(* Co-occurrence / similarity graph construction of traverse.              *)
(*                                                                         *)
(*   traverse/graph/cooccurrence.py  CooccurrenceBuilder (add, build)      *)
(*   traverse/graph/album_graph.py   build_album_graph, _consolidate       *)
(*                                                                         *)
(* Strings are compared lexicographically by the code.  The tag ids of the *)
(* model are the strings of TagOrder, listed in lexicographic order, and   *)
(* Rank gives a string's place in that order.  An Optional[int] of the     *)
(* code is a sequence of length at most one: <<>> is None, <<n>> is n.     *)
(***************************************************************************)
EXTENDS Integers, Sequences, FiniteSets, TLC

VARIABLES
    prog,               \* which entry point this run exercises
    min_cooccurrence,   \* CooccurrenceBuilder.min_cooccurrence
    max_nodes,          \* CooccurrenceBuilder.max_nodes (0 = no cap)
    max_edges,          \* CooccurrenceBuilder.max_edges (0 = no cap)
    counts,             \* _counts: Counter, as its items in insertion order
    node_first_seen,    \* _node_first_seen: tag -> timestamp
    edge_first_seen,    \* _edge_first_seen: (a, b) -> timestamp
    node_labels,        \* _node_labels: tag -> label
    rows_seen,          \* _rows_seen
    rows_with_tags,     \* _rows_with_tags
    rows_with_pairs,    \* _rows_with_pairs
    graph,              \* value returned by the last build() since the last add()
    builds,             \* number of build() calls since the last add()
    adds,               \* log of the add() calls made so far (history)
    last_call,          \* the last call made on the builder (history)
    raised,             \* the exception the last call raised, "" if none
    categorized,        \* tags that some add() call passed a category for (history)
    pc,                 \* build_album_graph: the pass it is in
    min_weight,         \* build_album_graph arguments
    album_max_nodes,
    album_max_edges,
    max_tag_degree,
    sample_high_degree,
    unweighted,
    max_edge_weight,
    batch_cap,          \* BATCH_CAP
    node_edge_tags,     \* record_id -> set of edge tags, as items in insertion order
    node_meta,          \* keys of node_meta
    int_to_str,         \* sorted record ids; a record's int id is its place - 1
    tag_items,          \* tag_to_ints.items() not yet visited by the Pass 2 loop
    batch,              \* batch_rows / batch_cols: the (row, col) pairs not yet consolidated
    acc,                \* acc_rows / acc_cols / acc_weights
    emitted,            \* bag of the posting lists Pass 2 took pairs from (history)
    observations,       \* bag of the (row, col) pairs Pass 2 put into a batch (history)
    album_graph,        \* value returned by build_album_graph
    artist_pc,          \* build_artist_graph: the pass it is in
    min_shared_tags,    \* build_artist_graph arguments
    max_edges_per_node,
    artist_max_nodes,
    artist_max_edges,
    artist_max_tag_degree,
    artist_sample_high_degree,
    artist_all_tags,    \* artist -> merged set of edge tags, as items in insertion order
    keys_sorted,        \* sorted artist keys; an artist's int id is its place - 1
    tag_to_nodes,       \* tag -> posting list, as items in insertion order
    node_tags,          \* int id -> the tags of the node
    node_iter,          \* next int id of the nearest-neighbour loop
    artist_tag_items,   \* tag_to_nodes.items() not yet visited by the pairwise loop
    edge_weights,       \* Counter of pairs, as its items in insertion order
    artist_graph,       \* value returned by build_artist_graph
    cache_kind,         \* the cache class in use
    files,              \* cache_dir: file name -> content
    build_calls,        \* number of build_fn calls so far (history)
    loads,              \* number of load_or_build calls so far (history)
    last_load,          \* the last load_or_build call and its result (history)
    last_persisted,     \* the last build that was persisted whole (history)
    threads,            \* request handler threads: request, position, locals
    pending_csv,        \* PENDING_CSV: track ids of its rows, in file order
    overrides_csv,      \* OVERRIDES_CSV: track ids of its rows, in file order
    tracks_parquet,     \* _out/canonical_tracks.parquet: track ids patched
    plays_parquet,      \* _out/canonical_plays.parquet: track ids patched
    canonical_plays,    \* _canonical_plays: None or the table it holds
    canonical_plays_loaded, \* _canonical_plays_loaded
    requests,           \* number of requests accepted so far (history)
    acked,              \* track ids whose submit returned ok, neither approved nor denied since (history)
    completed           \* track ids whose _patch_canonical_tables has completed (history)

coVars == <<min_cooccurrence, max_nodes, max_edges, counts, node_first_seen,
            edge_first_seen, node_labels, rows_seen, rows_with_tags,
            rows_with_pairs, graph, builds, adds, last_call, raised, categorized>>

albumVars == <<pc, min_weight, album_max_nodes, album_max_edges, max_tag_degree,
               sample_high_degree, unweighted, max_edge_weight, batch_cap,
               node_edge_tags, node_meta, int_to_str, tag_items,
               batch, acc, emitted, observations, album_graph>>

artistVars == <<artist_pc, min_shared_tags, max_edges_per_node, artist_max_nodes,
                artist_max_edges, artist_max_tag_degree, artist_sample_high_degree,
                artist_all_tags, keys_sorted, tag_to_nodes, node_tags, node_iter,
                artist_tag_items, edge_weights, artist_graph>>

cacheVars == <<cache_kind, files, build_calls, loads, last_load, last_persisted>>

serverVars == <<threads, pending_csv, overrides_csv, tracks_parquet, plays_parquet,
                canonical_plays, canonical_plays_loaded, requests, acked, completed>>

vars == <<prog, coVars, albumVars, artistVars, cacheVars, serverVars>>

-----------------------------------------------------------------------------
(* Bounds of the model *)

\* add() calls per run
MaxAdds == 3
\* consecutive build() calls without an add() in between
MaxBuilds == 2

\* Tag strings in lexicographic order; "" is the empty string
TagOrder == <<"", "a", "b", "c", "d">>
Tags == {TagOrder[i] : i \in DOMAIN TagOrder}

\* Tag lists fed to add() when pair counting and build() are exercised
PairTagLists ==
    { <<"a", "b">>, <<"a", "c">>, <<"a", "d">>, <<"b", "c">>, <<"b", "d">>,
      <<"c", "d">>, <<"a", "b", "c">>, <<"a", "c", "d">>, <<"b", "c", "d">>,
      <<"d", "b", "a">> }

\* Tag lists of the add() calls that pass tag_categories
CategoryTagLists == { <<"a", "b">>, <<"c", "d">> }

\* Constructor arguments
MinCooccurrenceValues == {1, 2}
MaxNodesValues == {0, 2, 3}
MaxEdgesValues == {0, 1}

None == <<>>
Some(n) == <<n>>

\* Tag lists and timestamps fed to add() when the accumulation is exercised:
\* no tags, one tag, a repeated tag, an empty tag, two and three unique tags
TagLists ==
    { <<>>, <<"a">>, <<"b", "a", "b">>, <<"", "c", "a">>, <<"a", "b", "c">> }
Timestamps == {None, Some(1), Some(2)}

-----------------------------------------------------------------------------
(* Strings and sequences *)

\* the place of each string in the lexicographic order
RankOf == [t \in Tags |-> CHOOSE i \in DOMAIN TagOrder : TagOrder[i] = t]

Rank(t) == RankOf[t]

\* a <= b on str
StrLe(a, b) == Rank(a) <= Rank(b)

StrLt(a, b) == Rank(a) < Rank(b)

\* (a1, b1) <= (a2, b2) on tuples of str
PairLe(p, q) == StrLt(p[1], q[1]) \/ (p[1] = q[1] /\ StrLe(p[2], q[2]))

\* sorted(S) for a set of str
RECURSIVE SortedTags(_)
SortedTags(S) ==
    IF S = {} THEN <<>>
    ELSE LET m == CHOOSE x \in S : \A y \in S : StrLe(x, y)
         IN  <<m>> \o SortedTags(S \ {m})

Range(s) == {s[i] : i \in DOMAIN s}

\* seq[:n]
Take(s, n) == IF Len(s) <= n THEN s ELSE SubSeq(s, 1, n)

\* The order in which list.sort(key=..., reverse=True) and sorted(...,
\* reverse=True) place elements whose sort keys are keys[1..n]: stable, so
\* elements with equal keys keep their order.  The result lists indices.
RECURSIVE StableDescOrder(_)
StableDescOrder(keys) ==
    IF keys = <<>> THEN <<>>
    ELSE LET n    == Len(keys)
             rest == StableDescOrder(SubSeq(keys, 1, n - 1))
             \* n goes behind every index whose key is >= its own
             k    == Cardinality({i \in DOMAIN rest : keys[rest[i]] >= keys[n]})
         IN  SubSeq(rest, 1, k) \o <<n>> \o SubSeq(rest, k + 1, Len(rest))

-----------------------------------------------------------------------------
(* CooccurrenceBuilder.add *)

\* set(tags)
UniqueTags(tags) == Range(tags)

\* itertools.combinations(uniq, 2)
RECURSIVE Combinations2(_)
Combinations2(uniq) ==
    IF Len(uniq) < 2 THEN <<>>
    ELSE [k \in 1..(Len(uniq) - 1) |-> <<uniq[1], uniq[k + 1]>>]
         \o Combinations2(Tail(uniq))

\* _cooccurrence_pairs without its "if t" filter
CooccurrencePairsKeepingEmpty(tags) ==
    LET uniq == SortedTags(UniqueTags(tags))
    IN  IF Len(uniq) < 2 THEN <<>> ELSE Combinations2(uniq)

CooccurrencePairs(tags) ==
    LET uniq == SortedTags({t \in UniqueTags(tags) : t # ""})
    IN  IF Len(uniq) < 2 THEN <<>> ELSE Combinations2(uniq)

OrderedPair(a, b) == IF StrLe(a, b) THEN <<a, b>> ELSE <<b, a>>

\* the keys of add()'s pair loop, in loop order
PairKeysOfList(tags) ==
    LET pairs == CooccurrencePairs(SortedTags(UniqueTags(tags)))
    IN  [i \in DOMAIN pairs |-> OrderedPair(pairs[i][1], pairs[i][2])]

\* PairKeysOfList, tabulated over the tag lists of the model
PairKeysTable == [tags \in TagLists \cup PairTagLists |-> PairKeysOfList(tags)]

PairKeys(tags) == PairKeysTable[tags]

\* the increment doubled: self._counts[key] += 2
CounterIncByTwo(cs, key) ==
    IF \E i \in DOMAIN cs : cs[i].key = key
    THEN [i \in DOMAIN cs |->
            IF cs[i].key = key THEN [cs[i] EXCEPT !.w = @ + 2] ELSE cs[i]]
    ELSE Append(cs, [key |-> key, w |-> 2])

\* self._counts[key] += 1
CounterInc(cs, key) ==
    IF \E i \in DOMAIN cs : cs[i].key = key
    THEN [i \in DOMAIN cs |->
            IF cs[i].key = key THEN [cs[i] EXCEPT !.w = @ + 1] ELSE cs[i]]
    ELSE Append(cs, [key |-> key, w |-> 1])

\* self._counts[key] of a Counter: 0 for a missing key
WeightOf(cs, key) ==
    IF \E i \in DOMAIN cs : cs[i].key = key
    THEN cs[CHOOSE i \in DOMAIN cs : cs[i].key = key].w
    ELSE 0

RECURSIVE CountsAfter(_, _)
CountsAfter(cs, keys) ==
    IF keys = <<>> THEN cs
    ELSE CountsAfter(CounterInc(cs, Head(keys)), Tail(keys))

\* the first-seen update without its "timestamp_ms < prev" test: the last call wins
FirstSeenOverwrite(d, k, ts) ==
    [x \in DOMAIN d \cup {k} |-> IF x = k THEN ts ELSE d[x]]

\* the first-seen update without its "timestamp_ms < prev" branch: the first
\* timestamp stays
FirstSeenKeepingFirst(d, k, ts) ==
    IF k \notin DOMAIN d
    THEN [x \in DOMAIN d \cup {k} |-> IF x = k THEN ts ELSE d[x]]
    ELSE d

\* prev = d.get(k); if prev is None or timestamp_ms < prev: d[k] = timestamp_ms
FirstSeenUpdate(d, k, ts) ==
    IF k \notin DOMAIN d \/ ts < d[k]
    THEN [x \in DOMAIN d \cup {k} |-> IF x = k THEN ts ELSE d[x]]
    ELSE d

\* the first-seen map after the loop over the keys K with timestamp_ms
FirstSeenAfter(d, K, timestamp_ms) ==
    IF timestamp_ms = None THEN d
    ELSE [x \in DOMAIN d \cup K |->
            IF x \in K
            THEN FirstSeenUpdate(d, x, timestamp_ms[1])[x]
            ELSE d[x]]

\* if t not in self._node_labels: self._node_labels[t] = t   (label_fn is None)
LabelsAfter(labels, T) ==
    [t \in DOMAIN labels \cup T |-> IF t \in DOMAIN labels THEN labels[t] ELSE t]

\* _counts after add(tags)
CountsOnAdd(cs, tags) ==
    IF tags = <<>> THEN cs ELSE CountsAfter(cs, PairKeys(tags))

\* add() without the first-seen update of its tag loop
NodeFirstSeenKept(d, tags, timestamp_ms) == d

\* _node_first_seen after add(tags, timestamp_ms)
NodeFirstSeenOnAdd(d, tags, timestamp_ms) ==
    IF tags = <<>> THEN d ELSE FirstSeenAfter(d, UniqueTags(tags), timestamp_ms)

\* _edge_first_seen after add(tags, timestamp_ms)
EdgeFirstSeenOnAdd(d, tags, timestamp_ms) ==
    IF tags = <<>> THEN d ELSE FirstSeenAfter(d, Range(PairKeys(tags)), timestamp_ms)

\* _node_labels after add(tags)
NodeLabelsOnAdd(labels, tags) ==
    IF tags = <<>> THEN labels ELSE LabelsAfter(labels, UniqueTags(tags))

\* add() with "self._rows_with_tags += 1" moved above the "if not tags" return
AddEffectCountingEmpty(tags, timestamp_ms) ==
    /\ rows_seen' = rows_seen + 1
    /\ rows_with_tags' = rows_with_tags + 1
    /\ node_labels' = NodeLabelsOnAdd(node_labels, tags)
    /\ node_first_seen' = NodeFirstSeenOnAdd(node_first_seen, tags, timestamp_ms)
    /\ rows_with_pairs' =
           IF tags # <<>> /\ PairKeys(tags) # <<>>
           THEN rows_with_pairs + 1 ELSE rows_with_pairs
    /\ counts' = CountsOnAdd(counts, tags)
    /\ edge_first_seen' = EdgeFirstSeenOnAdd(edge_first_seen, tags, timestamp_ms)

\* add(tags, timestamp_ms=..., label_fn=None)
AddEffect(tags, timestamp_ms) ==
    /\ rows_seen' = rows_seen + 1
    /\ rows_with_tags' = IF tags # <<>> THEN rows_with_tags + 1 ELSE rows_with_tags
    /\ node_labels' = NodeLabelsOnAdd(node_labels, tags)
    /\ node_first_seen' = NodeFirstSeenOnAdd(node_first_seen, tags, timestamp_ms)
    /\ rows_with_pairs' =
           IF tags # <<>> /\ PairKeys(tags) # <<>>
           THEN rows_with_pairs + 1 ELSE rows_with_pairs
    /\ counts' = CountsOnAdd(counts, tags)
    /\ edge_first_seen' = EdgeFirstSeenOnAdd(edge_first_seen, tags, timestamp_ms)

-----------------------------------------------------------------------------
(* CooccurrenceBuilder.build *)

\* no build() result at hand
NoGraph == [built |-> FALSE, points |-> <<>>, links |-> <<>>]

\* edges.sort(key=lambda x: x[2], reverse=True)
SortByWeightDesc(edges) ==
    LET order == StableDescOrder([i \in DOMAIN edges |-> edges[i].w])
    IN  [i \in DOMAIN edges |-> edges[order[i]]]

\* the threshold off by one: pairs one short of min_cooccurrence pass
ThresholdEdgesOffByOne(cs, m) ==
    SortByWeightDesc(SelectSeq(cs, LAMBDA e : e.w >= m - 1))

\* 1. threshold, then sort by weight
ThresholdEdges(cs, m) ==
    SortByWeightDesc(SelectSeq(cs, LAMBDA e : e.w >= m))

\* strength[n] += w on a defaultdict(int), kept as its items in insertion order
StrengthInc(st, n, w) ==
    IF \E i \in DOMAIN st : st[i].n = n
    THEN [i \in DOMAIN st |->
            IF st[i].n = n THEN [st[i] EXCEPT !.s = @ + w] ELSE st[i]]
    ELSE Append(st, [n |-> n, s |-> w])

\* 2. node strength (weighted degree)
RECURSIVE Strength(_)
Strength(edges) ==
    IF edges = <<>> THEN <<>>
    ELSE LET e    == edges[Len(edges)]
             prev == Strength(SubSeq(edges, 1, Len(edges) - 1))
         IN  StrengthInc(StrengthInc(prev, e.key[1], e.w), e.key[2], e.w)

\* sorted(strength.items(), key=lambda kv: kv[1], reverse=True)
SortByStrengthDesc(st) ==
    LET order == StableDescOrder([i \in DOMAIN st |-> st[i].s])
    IN  [i \in DOMAIN st |-> st[order[i]]]

\* the slice off by one: [: max_nodes + 1]
KeepNodesOneMore(edges, maxNodes) ==
    LET ranked == SortByStrengthDesc(Strength(edges))
        top    == Take(ranked, maxNodes + 1)
    IN  {top[i].n : i \in DOMAIN top}

\* 3. keep = the first max_nodes of sorted(strength.items(), by strength, reverse)
KeepNodes(edges, maxNodes) ==
    LET ranked == SortByStrengthDesc(Strength(edges))
        top    == Take(ranked, maxNodes)
    IN  {top[i].n : i \in DOMAIN top}

CapNodes(edges, maxNodes) ==
    IF maxNodes > 0
    THEN LET keep == KeepNodes(edges, maxNodes)
         IN  SelectSeq(edges, LAMBDA e : e.key[1] \in keep /\ e.key[2] \in keep)
    ELSE edges

\* the slice taken from the wrong end: edges[-max_edges:]
CapEdgesFromTail(edges, maxEdges) ==
    IF maxEdges > 0 /\ Len(edges) > maxEdges
    THEN SubSeq(edges, Len(edges) - maxEdges + 1, Len(edges)) ELSE edges

\* 4. cap edges
CapEdges(edges, maxEdges) ==
    IF maxEdges > 0 /\ Len(edges) > maxEdges THEN Take(edges, maxEdges) ELSE edges

\* the edges that build() turns into links
FinalEdges(cs, m, maxNodes, maxEdges) ==
    CapEdges(CapNodes(ThresholdEdges(cs, m), maxNodes), maxEdges)

\* 5. final node set
NodeIds(edges) ==
    {edges[i].key[1] : i \in DOMAIN edges} \cup {edges[i].key[2] : i \in DOMAIN edges}

\* points made of every labelled tag instead of the final node set
BuildPointsOfLabels(ids, labels, nfs) ==
    LET order == SortedTags(DOMAIN labels)
    IN  [i \in DOMAIN order |->
            [id         |-> order[i],
             label      |-> IF labels[order[i]] # "" THEN labels[order[i]] ELSE order[i],
             first_seen |-> IF order[i] \in DOMAIN nfs
                            THEN Some(nfs[order[i]]) ELSE None]]

\* 6. points, sorted by id
BuildPoints(ids, labels, nfs) ==
    LET order == SortedTags(ids)
    IN  [i \in DOMAIN order |->
            [id         |-> order[i],
             label      |-> IF order[i] \in DOMAIN labels /\ labels[order[i]] # ""
                            THEN labels[order[i]] ELSE order[i],
             first_seen |-> IF order[i] \in DOMAIN nfs
                            THEN Some(nfs[order[i]]) ELSE None]]

\* 7. links
BuildLinks(edges, efs) ==
    [i \in DOMAIN edges |->
        LET key == OrderedPair(edges[i].key[1], edges[i].key[2])
        IN  [source     |-> edges[i].key[1],
             target     |-> edges[i].key[2],
             weight     |-> edges[i].w,
             first_seen |-> IF key \in DOMAIN efs THEN Some(efs[key]) ELSE None]]

\* a build() that makes a point of every tag add() has seen
BuildGraphOfSeenTags(cs, nfs, efs, labels, m, maxNodes, maxEdges) ==
    LET edges == FinalEdges(cs, m, maxNodes, maxEdges)
    IN  [built  |-> TRUE,
         points |-> BuildPoints(DOMAIN labels, labels, nfs),
         links  |-> BuildLinks(edges, efs)]

\* build(): steps 1 to 7
BuildGraph(cs, nfs, efs, labels, m, maxNodes, maxEdges) ==
    LET edges == FinalEdges(cs, m, maxNodes, maxEdges)
    IN  [built  |-> TRUE,
         points |-> BuildPoints(NodeIds(edges), labels, nfs),
         links  |-> BuildLinks(edges, efs)]

\* a build() that prunes self._counts to the thresholded pairs as it goes
BuildEffectPruningCounts ==
    /\ graph' = BuildGraph(counts, node_first_seen, edge_first_seen, node_labels,
                           min_cooccurrence, max_nodes, max_edges)
    /\ counts' = SelectSeq(counts, LAMBDA e : e.w >= min_cooccurrence)
    /\ UNCHANGED <<node_first_seen, edge_first_seen, node_labels,
                   rows_seen, rows_with_tags, rows_with_pairs>>

BuildEffect ==
    /\ graph' = BuildGraph(counts, node_first_seen, edge_first_seen, node_labels,
                           min_cooccurrence, max_nodes, max_edges)
    /\ UNCHANGED <<counts, node_first_seen, edge_first_seen, node_labels,
                   rows_seen, rows_with_tags, rows_with_pairs>>

-----------------------------------------------------------------------------
(* build_album_graph: inputs *)

\* Titles and artists of the CSV rows; "" is a missing title
Titles == {"", "A", "a", "b", "c"}
Artists == {"x", "Various"}

\* str.lower() of the titles and artists above
Lower ==
    [s \in Titles \cup Artists \cup {"y", "z"} |->
        CASE s = "A" -> "a"
          [] s = "Various" -> "various"
          [] OTHER -> s]

SKIP_ARTISTS ==
    {"various", "various artists", "various artist",
     "unknown", "unknown artist", "unknown artists"}

is_skip_artist(name) == Lower[name] \in SKIP_ARTISTS

\* The record ids "title::artist" of the rows above, in lexicographic order
RecordOrder == <<"a::x", "b::x", "c::x">>
RecordIds == {RecordOrder[i] : i \in DOMAIN RecordOrder}
RecordRankOf == [k \in RecordIds |-> CHOOSE i \in DOMAIN RecordOrder : RecordOrder[i] = k]

\* split_tags() of the styles column of a row: lower-cased, without repeats
EdgeTagLists ==
    { <<>>, <<"p">>, <<"p", "q">>, <<"q", "r">>, <<"p", "q", "r">> }

\* Arguments of build_album_graph.  BATCH_CAP is 30_000_000 in the code; the
\* model takes it from a set of thresholds on the scale of its pair streams.
MinWeightValues == {1, 2}
AlbumMaxNodesValues == {0}
AlbumMaxEdgesValues == {0, 1}
MaxTagDegreeValues == {2, 3}
MaxEdgeWeightValues == {0}
BatchCapValues == {2, 3}

-----------------------------------------------------------------------------
(* build_album_graph: packing and consolidation *)

\* The multiplier that packs (row, col) into one integer.  The code uses
\* 2_200_000_000, above every int32 id; the model's ids are below 2200.
PackBase == 2200

Pack(r, c) == r * PackBase + c
UnpackRow(p) == p \div PackBase
UnpackCol(p) == p % PackBase

\* sorted(S) of a set of integers
RECURSIVE SortedInts(_)
SortedInts(S) ==
    IF S = {} THEN <<>>
    ELSE LET m == CHOOSE x \in S : \A y \in S : x <= y
         IN  <<m>> \o SortedInts(S \ {m})

\* _pairs_from_sorted: the upper-triangle pairs of a sorted array, row by row
pairs_from_sorted(arr) ==
    LET n == Len(arr)
        RECURSIVE From(_, _)
        From(i, j) ==
            IF i >= n THEN <<>>
            ELSE IF j > n THEN From(i + 1, i + 2)
            ELSE <<<<arr[i], arr[j]>>>> \o From(i, j + 1)
    IN  IF n < 2 THEN <<>> ELSE From(1, 2)

\* (rows, cols, weights) of a list of packed keys with their weights
Unpacked(unique_packed, weights) ==
    [k \in DOMAIN unique_packed |->
        [row |-> UnpackRow(unique_packed[k]),
         col |-> UnpackCol(unique_packed[k]),
         weight |-> weights[k]]]

\* _consolidate: np.unique over the packed pairs with counts, then the
\* singleton pruning
consolidate(pairs, minw, prune) ==
    LET packed == [i \in DOMAIN pairs |-> Pack(pairs[i][1], pairs[i][2])]
        unique_packed == SortedInts(Range(packed))
        counts_ == [k \in DOMAIN unique_packed |->
                       Cardinality({i \in DOMAIN packed : packed[i] = unique_packed[k]})]
        table == Unpacked(unique_packed, counts_)
    IN  IF prune /\ minw >= 2
        THEN SelectSeq(table, LAMBDA e : e.weight >= 2)
        ELSE table

\* np.add.at over the rows of one packed key
RECURSIVE SummedWeight(_, _)
SummedWeight(m, p) ==
    IF m = <<>> THEN 0
    ELSE (IF Pack(Head(m).row, Head(m).col) = p THEN Head(m).weight ELSE 0)
         + SummedWeight(Tail(m), p)

\* Merge of the accumulator with a consolidated batch: concatenate, sort the
\* packed keys, sum the weights of equal keys, then prune summed singletons
\* when pruneSingles
MergeTables(a, b, pruneSingles) ==
    LET m == a \o b
        packed == [i \in DOMAIN m |-> Pack(m[i].row, m[i].col)]
        unique_packed == SortedInts(Range(packed))
        summed_weights == [k \in DOMAIN unique_packed |->
                              SummedWeight(m, unique_packed[k])]
        table == Unpacked(unique_packed, summed_weights)
    IN  IF pruneSingles
        THEN SelectSeq(table, LAMBDA e : e.weight >= 2)
        ELSE table

\* The consolidation inside the Pass 2 loop
LoopConsolidation(a, pairs, minw, unw) ==
    IF Len(a) > 0
    THEN LET b == consolidate(pairs, minw, ~unw)
         IN  IF Len(b) > 0
             THEN MergeTables(a, b, ~unw /\ minw >= 2)
             ELSE a
    ELSE consolidate(pairs, minw, ~unw)

\* The consolidation after the Pass 2 loop
FinalConsolidation(a, pairs, minw, unw) ==
    IF Len(a) > 0 /\ Len(pairs) > 0
    THEN LET b == consolidate(pairs, minw, ~unw)
         IN  IF Len(b) > 0 THEN MergeTables(a, b, FALSE) ELSE a
    ELSE IF Len(pairs) > 0
    THEN consolidate(pairs, minw, ~unw)
    ELSE a

-----------------------------------------------------------------------------
(* build_album_graph: the passes *)

\* Pass 1b: the albums kept by the node cap, in their insertion order
CapAlbums(net, maxNodes) ==
    IF maxNodes > 0 /\ Len(net) > maxNodes
    THEN LET order == StableDescOrder([i \in DOMAIN net |-> Cardinality(net[i].tags)])
             keep == {net[order[i]].record_id : i \in 1..maxNodes}
         IN  SelectSeq(net, LAMBDA e : e.record_id \in keep)
    ELSE net

\* sorted(node_edge_tags.keys())
RECURSIVE SortedRecords(_)
SortedRecords(K) ==
    IF K = {} THEN <<>>
    ELSE LET m == CHOOSE x \in K : \A y \in K : RecordRankOf[x] <= RecordRankOf[y]
         IN  <<m>> \o SortedRecords(K \ {m})

\* str_to_int[record_id]: ids count from 0
StrToInt(its, record_id) == (CHOOSE i \in DOMAIN its : its[i] = record_id) - 1

\* int_to_str[nid_int]
IntToStr(its, nid_int) == its[nid_int + 1]

AllEdgeTags(net) == UNION {net[i].tags : i \in DOMAIN net}

\* place of the first album that holds tag t
FirstHolder(net, t) ==
    CHOOSE i \in DOMAIN net :
        t \in net[i].tags /\ \A j \in 1..(i - 1) : t \notin net[j].tags

\* The key orders tag_to_ints can get: albums are visited in insertion order,
\* the tags of one album in the iteration order of a set of strings, which
\* the hash seed of the process decides.
TagInsertionOrders(net) ==
    LET T == AllEdgeTags(net)
    IN  {o \in [1..Cardinality(T) -> T] :
            /\ \A i, j \in DOMAIN o : i # j => o[i] # o[j]
            /\ \A i, j \in DOMAIN o :
                  i < j => FirstHolder(net, o[i]) <= FirstHolder(net, o[j])}

\* tag_to_ints[t]: the int ids of the albums that hold t, in insertion order
PostingList(net, its, t) ==
    LET holders == SelectSeq(net, LAMBDA e : t \in e.tags)
    IN  [i \in DOMAIN holders |-> StrToInt(its, holders[i].record_id)]

\* the degree control with "len(rec_ints) >= max_tag_degree" as its test
DegreeControlOffByOne(rec_ints, maxDegree, sample) ==
    IF Len(rec_ints) >= maxDegree
    THEN IF sample
         THEN {[skipped |-> FALSE, ints |-> S] :
                  S \in {S \in SUBSET Range(rec_ints) : Cardinality(S) = maxDegree}}
         ELSE {[skipped |-> TRUE, ints |-> {}]}
    ELSE {[skipped |-> FALSE, ints |-> Range(rec_ints)]}

\* Degree control of one posting list: the lists Pass 2 may go on with.
\* random.sample is not seeded, so every sample of the size is possible.
DegreeControl(rec_ints, maxDegree, sample) ==
    IF Len(rec_ints) > maxDegree
    THEN IF sample
         THEN {[skipped |-> FALSE, ints |-> S] :
                  S \in {S \in SUBSET Range(rec_ints) : Cardinality(S) = maxDegree}}
         ELSE {[skipped |-> TRUE, ints |-> {}]}
    ELSE {[skipped |-> FALSE, ints |-> Range(rec_ints)]}

\* Pass 3: min_weight filter
ThresholdWeights(a, minw, unw) ==
    IF minw > 1 /\ ~unw THEN SelectSeq(a, LAMBDA e : e.weight >= minw) ELSE a

\* Pass 3: np.clip(acc_weights, 0, max_edge_weight)
ClipWeights(a, maxw, unw) ==
    IF maxw > 0 /\ ~unw
    THEN [i \in DOMAIN a |->
            [a[i] EXCEPT !.weight = IF @ < 0 THEN 0 ELSE IF @ > maxw THEN maxw ELSE @]]
    ELSE a

\* Pass 3: unweighted mode sets every weight to 1
UnweightedOnes(a, unw) ==
    IF unw THEN [i \in DOMAIN a |-> [a[i] EXCEPT !.weight = 1]] ELSE a

\* np.argsort(-acc_weights): the sort is not stable, equal weights may come
\* out in any order
ArgsortDesc(a) ==
    {o \in Permutations(DOMAIN a) :
        \A i, j \in DOMAIN a : i < j => a[o[i]].weight >= a[o[j]].weight}

\* Pass 3: edge cap
CapAlbumEdges(a, maxEdges) ==
    IF maxEdges > 0 /\ Len(a) > maxEdges THEN SubSeq(a, 1, maxEdges) ELSE a

\* node_int_ids
NodeIntIds(a) == {a[i].row : i \in DOMAIN a} \cup {a[i].col : i \in DOMAIN a}

\* points: one per final node id that has metadata, in id order; the other
\* fields of a point are copied from node_meta[id]
AlbumPoints(a, its, meta) ==
    LET ids == SortedInts(NodeIntIds(a))
        all == [i \in DOMAIN ids |-> [id |-> IntToStr(its, ids[i])]]
    IN  SelectSeq(all, LAMBDA pt : pt.id \in meta)

\* links
AlbumLinks(a, its, unw) ==
    [i \in DOMAIN a |->
        IF unw
        THEN [source |-> IntToStr(its, a[i].row), target |-> IntToStr(its, a[i].col)]
        ELSE [source |-> IntToStr(its, a[i].row), target |-> IntToStr(its, a[i].col),
              weight |-> a[i].weight]]

\* A bag as a function from its elements to their counts
EmptyBag == [x \in {} |-> 0]

BagAdd(b, x) == IF x \in DOMAIN b THEN [b EXCEPT ![x] = @ + 1] ELSE b @@ (x :> 1)

RECURSIVE BagAddAll(_, _)
BagAddAll(b, xs) ==
    IF xs = <<>> THEN b ELSE BagAddAll(BagAdd(b, Head(xs)), Tail(xs))

\* The batch and the accumulator after the Pass 2 loop body has run on the
\* outcome "used" of the degree control of one tag
AfterTag(b, a, used, cap, minw, unw) ==
    IF used.skipped
    THEN [batch |-> b, acc |-> a]
    ELSE LET pairs == pairs_from_sorted(SortedInts(used.ints))
             grown == b \o pairs
         IN  IF Len(pairs) = 0
             THEN [batch |-> b, acc |-> a]
             ELSE IF Len(grown) >= cap
             THEN [batch |-> <<>>, acc |-> LoopConsolidation(a, grown, minw, unw)]
             ELSE [batch |-> grown, acc |-> a]

\* The variables of build_album_graph while no call is running
AlbumIdle ==
    /\ pc = "idle"
    /\ min_weight = 2
    /\ album_max_nodes = 0
    /\ album_max_edges = 0
    /\ max_tag_degree = 200
    /\ sample_high_degree = TRUE
    /\ unweighted = FALSE
    /\ max_edge_weight = 0
    /\ batch_cap = 0
    /\ node_edge_tags = <<>>
    /\ node_meta = {}
    /\ int_to_str = <<>>
    /\ tag_items = <<>>
    /\ batch = <<>>
    /\ acc = <<>>
    /\ emitted = EmptyBag
    /\ observations = EmptyBag
    /\ album_graph = NoGraph

-----------------------------------------------------------------------------
(* Runs of a CooccurrenceBuilder *)

EmptyMap == [x \in {} |-> 0]

InitBuilder(m, n, e) ==
    /\ min_cooccurrence = m
    /\ max_nodes = n
    /\ max_edges = e
    /\ counts = <<>>
    /\ node_first_seen = EmptyMap
    /\ edge_first_seen = EmptyMap
    /\ node_labels = EmptyMap
    /\ rows_seen = 0
    /\ rows_with_tags = 0
    /\ rows_with_pairs = 0
    /\ graph = NoGraph
    /\ builds = 0
    /\ adds = <<>>
    /\ last_call = "init"
    /\ raised = ""
    /\ categorized = {}

AddCall(tags, timestamp_ms) ==
    /\ prog = "cooccurrence"
    /\ rows_seen < MaxAdds
    /\ AddEffect(tags, timestamp_ms)
    /\ graph' = NoGraph
    /\ builds' = 0
    /\ last_call' = "add"
    /\ raised' = ""
    /\ UNCHANGED <<prog, cacheVars, serverVars, min_cooccurrence, max_nodes, max_edges, categorized, albumVars, artistVars>>

\* builder.add(tags) on the way to a build()
Add ==
    \E tags \in PairTagLists :
        /\ AddCall(tags, None)
        /\ UNCHANGED adds

\* builder.add(tags, timestamp_ms=...), logged
AddLogged ==
    \E tags \in TagLists, timestamp_ms \in Timestamps :
        /\ AddCall(tags, timestamp_ms)
        /\ adds' = Append(adds, [tags |-> tags, timestamp_ms |-> timestamp_ms])

\* builder.build()
Build ==
    /\ prog = "cooccurrence"
    /\ builds < MaxBuilds
    /\ BuildEffect
    /\ builds' = builds + 1
    /\ last_call' = "build"
    /\ raised' = ""
    /\ UNCHANGED <<prog, cacheVars, serverVars, min_cooccurrence, max_nodes, max_edges, adds, categorized,
                   albumVars, artistVars>>

\* reset() that forgets to clear the labels
ResetEffectKeepingLabels ==
    /\ counts' = <<>>
    /\ node_first_seen' = EmptyMap
    /\ edge_first_seen' = EmptyMap
    /\ rows_seen' = 0
    /\ rows_with_tags' = 0
    /\ rows_with_pairs' = 0
    /\ UNCHANGED node_labels

ResetEffect ==
    /\ counts' = <<>>
    /\ node_first_seen' = EmptyMap
    /\ edge_first_seen' = EmptyMap
    /\ node_labels' = EmptyMap
    /\ rows_seen' = 0
    /\ rows_with_tags' = 0
    /\ rows_with_pairs' = 0

\* builder.reset()
Reset ==
    /\ prog = "cooccurrence"
    /\ ResetEffect
    /\ graph' = NoGraph
    /\ builds' = 0
    /\ adds' = <<>>
    /\ last_call' = "reset"
    /\ raised' = ""
    /\ categorized' = {}
    /\ UNCHANGED <<prog, cacheVars, serverVars, min_cooccurrence, max_nodes, max_edges, albumVars, artistVars>>

\* builder.add(tags, tag_categories={t: "genre" for t in tags}): add() has
\* no such parameter, so the call raises TypeError before its body runs
AddWithCategories ==
    \E tags \in CategoryTagLists :
        /\ prog = "cooccurrence"
        /\ raised' = "TypeError"
        /\ last_call' = "add"
        /\ categorized' = categorized \cup Range(tags)
        /\ UNCHANGED <<prog, cacheVars, serverVars, min_cooccurrence, max_nodes, max_edges, counts,
                       node_first_seen, edge_first_seen, node_labels, rows_seen,
                       rows_with_tags, rows_with_pairs, graph, builds, adds,
                       albumVars, artistVars>>

-----------------------------------------------------------------------------
(* Runs of build_album_graph *)

\* build_album_graph(records_csv, ...) entered, before the first row
InitAlbumCall(mw, mn, me, deg, smp, unw, mew, cap) ==
    /\ pc = "scan"
    /\ min_weight = IF unw THEN 1 ELSE mw
    /\ album_max_nodes = mn
    /\ album_max_edges = me
    /\ max_tag_degree = deg
    /\ sample_high_degree = smp
    /\ unweighted = unw
    /\ max_edge_weight = mew
    /\ batch_cap = cap
    /\ node_edge_tags = <<>>
    /\ node_meta = {}
    /\ int_to_str = <<>>
    /\ tag_items = <<>>
    /\ batch = <<>>
    /\ acc = <<>>
    /\ emitted = EmptyBag
    /\ observations = EmptyBag
    /\ album_graph = NoGraph

albumArgs == <<min_weight, album_max_nodes, album_max_edges, max_tag_degree,
               sample_high_degree, unweighted, max_edge_weight, batch_cap>>

\* record_id of a row
RecordId(tval, aval) == Lower[tval] \o "::" \o Lower[aval]

\* the row passes the four "continue" tests of Pass 1a
RowRecorded(meta, tval, aval, edge_tags) ==
    ~ \/ tval = ""
      \/ is_skip_artist(aval)
      \/ RecordId(tval, aval) \in meta
      \/ edge_tags = <<>>

\* node_edge_tags after one row of the CSV
NodeEdgeTagsAfterRow(net, meta, tval, aval, edge_tags) ==
    IF RowRecorded(meta, tval, aval, edge_tags)
    THEN Append(net, [record_id |-> RecordId(tval, aval), tags |-> Range(edge_tags)])
    ELSE net

\* Pass 1a: one row of the CSV
ScanRow ==
    \E tval \in Titles, aval \in Artists, style_tags \in EdgeTagLists :
        /\ prog = "album"
        /\ pc = "scan"
        /\ LET edge_tags == style_tags
           IN  /\ node_edge_tags' =
                     NodeEdgeTagsAfterRow(node_edge_tags, node_meta, tval, aval, edge_tags)
               /\ node_meta' =
                     IF RowRecorded(node_meta, tval, aval, edge_tags)
                     THEN node_meta \cup {RecordId(tval, aval)}
                     ELSE node_meta
        /\ UNCHANGED <<prog, cacheVars, serverVars, coVars, artistVars, albumArgs, pc, int_to_str,
                       tag_items, batch, acc, emitted, observations, album_graph>>

\* End of the CSV: Pass 1b (node cap) and Pass 1c (inverted index)
EndScan ==
    /\ prog = "album"
    /\ pc = "scan"
    /\ LET kept == CapAlbums(node_edge_tags, album_max_nodes)
           keys == {kept[i].record_id : i \in DOMAIN kept}
           its == SortedRecords(keys)
       IN  /\ node_meta' = node_meta \cap keys
           /\ int_to_str' = its
           /\ \E o \in TagInsertionOrders(kept) :
                 tag_items' =
                     [i \in DOMAIN o |->
                         [tag |-> o[i], ints |-> PostingList(kept, its, o[i])]]
    \* del node_edge_tags
    /\ node_edge_tags' = <<>>
    /\ pc' = "edges"
    /\ UNCHANGED <<prog, cacheVars, serverVars, coVars, artistVars, albumArgs, batch, acc, emitted,
                   observations, album_graph>>

\* Pass 2: one tag of the inverted index
TagStep ==
    /\ prog = "album"
    /\ pc = "edges"
    /\ tag_items # <<>>
    /\ \E used \in DegreeControl(Head(tag_items).ints, max_tag_degree,
                                 sample_high_degree) :
          LET after == AfterTag(batch, acc, used, batch_cap, min_weight, unweighted)
          IN  /\ batch' = after.batch
              /\ acc' = after.acc
              /\ IF used.skipped
                 THEN UNCHANGED <<emitted, observations>>
                 ELSE /\ emitted' = BagAdd(emitted, used.ints)
                      /\ observations' =
                            BagAddAll(observations,
                                      pairs_from_sorted(SortedInts(used.ints)))
    /\ tag_items' = Tail(tag_items)
    /\ UNCHANGED <<prog, cacheVars, serverVars, coVars, artistVars, albumArgs, pc, node_edge_tags, node_meta,
                   int_to_str, album_graph>>

\* Pass 2: the consolidation of what is left after the last tag
EndTags ==
    /\ prog = "album"
    /\ pc = "edges"
    /\ tag_items = <<>>
    /\ acc' = FinalConsolidation(acc, batch, min_weight, unweighted)
    /\ batch' = <<>>
    /\ pc' = "post"
    /\ UNCHANGED <<prog, cacheVars, serverVars, coVars, artistVars, albumArgs, node_edge_tags, node_meta,
                   int_to_str, tag_items, emitted, observations, album_graph>>

\* Pass 3: threshold, clip, sort, cap, points and links
Pass3 ==
    /\ prog = "album"
    /\ pc = "post"
    /\ LET weighted == UnweightedOnes(
                           ClipWeights(
                               ThresholdWeights(acc, min_weight, unweighted),
                               max_edge_weight, unweighted),
                           unweighted)
       IN  \E sort_idx \in ArgsortDesc(weighted) :
              LET sorted == [i \in DOMAIN weighted |-> weighted[sort_idx[i]]]
                  capped == CapAlbumEdges(sorted, album_max_edges)
              IN  /\ acc' = capped
                  /\ album_graph' =
                        [built |-> TRUE,
                         points |-> AlbumPoints(capped, int_to_str, node_meta),
                         links |-> AlbumLinks(capped, int_to_str, unweighted)]
    /\ pc' = "done"
    /\ UNCHANGED <<prog, cacheVars, serverVars, coVars, artistVars, albumArgs, node_edge_tags, node_meta,
                   int_to_str, tag_items, batch, emitted, observations>>

-----------------------------------------------------------------------------
(* build_artist_graph *)

\* Artist column of the CSV rows; "" is a missing artist
ArtistNames == {"", "x", "y", "z", "Various"}

\* The artist keys of the rows above, in lexicographic order
ArtistOrder == <<"x", "y", "z">>
ArtistRankOf ==
    [k \in {ArtistOrder[i] : i \in DOMAIN ArtistOrder} |->
        CHOOSE i \in DOMAIN ArtistOrder : ArtistOrder[i] = k]

\* split_tags() of the styles column of a row
ArtistTagLists == { <<>>, <<"p">>, <<"q">>, <<"p", "q">> }

\* Arguments of build_artist_graph
EntityMaxTagDegreeValues == {2}
ClipValues == {0, 1}
MinSharedTagsValues == {1, 2}
MaxEdgesPerNodeValues == {0, 1}
ArtistMaxNodesValues == {0}
ArtistMaxEdgesValues == {0}

\* artist_all_tags[aval].update(edge_tags), on a new entry when aval is new
MergeTags(aat, aval, edge_tags) ==
    IF \E i \in DOMAIN aat : aat[i].key = aval
    THEN [i \in DOMAIN aat |->
            IF aat[i].key = aval
            THEN [aat[i] EXCEPT !.tags = @ \cup Range(edge_tags)]
            ELSE aat[i]]
    ELSE Append(aat, [key |-> aval, tags |-> Range(edge_tags)])

\* Pass 1b: the artists kept by the node cap, in their insertion order
CapArtists(aat, maxNodes) ==
    IF maxNodes > 0 /\ Len(aat) > maxNodes
    THEN LET order == StableDescOrder([i \in DOMAIN aat |-> Cardinality(aat[i].tags)])
             keep == {aat[order[i]].key : i \in 1..maxNodes}
         IN  SelectSeq(aat, LAMBDA e : e.key \in keep)
    ELSE aat

\* sorted(artist_all_tags.keys())
RECURSIVE SortedArtists(_)
SortedArtists(K) ==
    IF K = {} THEN <<>>
    ELSE LET m == CHOOSE x \in K : \A y \in K : ArtistRankOf[x] <= ArtistRankOf[y]
         IN  <<m>> \o SortedArtists(K \ {m})

\* key_to_int[key]: ids count from 0
KeyToInt(ks, key) == (CHOOSE i \in DOMAIN ks : ks[i] = key) - 1

\* tag_to_nodes[t]: the int ids of the artists that hold t, in insertion order
ArtistPostingList(aat, ks, t) ==
    LET holders == SelectSeq(aat, LAMBDA e : t \in e.tags)
    IN  [i \in DOMAIN holders |-> KeyToInt(ks, holders[i].key)]

\* random.sample(nids, k): a list of k distinct members in any order; the
\* generator is not seeded
OrderedSamples(nids, k) ==
    {s \in [1..k -> Range(nids)] : \A i, j \in 1..k : i # j => s[i] # s[j]}

\* The dicts the sample / skip loop over the tags can leave in tag_to_nodes
RECURSIVE DegreeControlled(_, _, _)
DegreeControlled(t2n, maxDegree, sample) ==
    IF t2n = <<>> THEN {<<>>}
    ELSE LET h == Head(t2n)
             rest == DegreeControlled(Tail(t2n), maxDegree, sample)
         IN  IF Len(h.nids) > maxDegree
             THEN IF sample
                  THEN {<<[tag |-> h.tag, nids |-> s]>> \o r :
                           s \in OrderedSamples(h.nids, maxDegree), r \in rest}
                  ELSE rest
             ELSE {<<h>> \o r : r \in rest}

\* the orders in which a set of strings can be iterated
OrdersOf(T) ==
    {o \in [1..Cardinality(T) -> T] : \A i, j \in DOMAIN o : i # j => o[i] # o[j]}

\* tag_to_nodes.get(tag, ())
NodesOfTag(t2n, tag) ==
    IF \E i \in DOMAIN t2n : t2n[i].tag = tag
    THEN t2n[CHOOSE i \in DOMAIN t2n : t2n[i].tag = tag].nids
    ELSE <<>>

\* the other nodes the two nested loops of node nid visit, in visiting order
RECURSIVE VisitedOthers(_, _, _)
VisitedOthers(tags, t2n, nid) ==
    IF tags = <<>> THEN <<>>
    ELSE SelectSeq(NodesOfTag(t2n, Head(tags)), LAMBDA other : other # nid)
         \o VisitedOthers(Tail(tags), t2n, nid)

\* overlap: Counter with overlap[other] += 1 for every visit
RECURSIVE OverlapOf(_)
OverlapOf(visited) ==
    IF visited = <<>> THEN <<>>
    ELSE CounterInc(OverlapOf(SubSeq(visited, 1, Len(visited) - 1)),
                    visited[Len(visited)])

\* Counter.most_common(n): by count, highest first, ties in insertion order
most_common(c, n) == Take(SortByWeightDesc(c), n)

\* edge_weights[pair] = w
CounterSet(cs, key, w) ==
    IF \E i \in DOMAIN cs : cs[i].key = key
    THEN [i \in DOMAIN cs |-> IF cs[i].key = key THEN [cs[i] EXCEPT !.w = w] ELSE cs[i]]
    ELSE Append(cs, [key |-> key, w |-> w])

\* the top-K loop with pair = (nid, other) in place of (min, max)
RECURSIVE NeighbourEdgesAsVisited(_, _, _, _)
NeighbourEdgesAsVisited(ew, top, nid, minShared) ==
    IF top = <<>> THEN ew
    ELSE IF Head(top).w < minShared THEN ew
    ELSE LET pair == <<nid, Head(top).key>>
             next == IF Head(top).w > WeightOf(ew, pair)
                     THEN CounterSet(ew, pair, Head(top).w)
                     ELSE ew
         IN  NeighbourEdgesAsVisited(next, Tail(top), nid, minShared)

\* the loop over the top neighbours of nid: stop at the first one below
\* min_shared_tags, keep the largest weight seen for a pair
RECURSIVE NeighbourEdges(_, _, _, _)
NeighbourEdges(ew, top, nid, minShared) ==
    IF top = <<>> THEN ew
    ELSE IF Head(top).w < minShared THEN ew
    ELSE LET other == Head(top).key
             pair == IF nid < other THEN <<nid, other>> ELSE <<other, nid>>
             next == IF Head(top).w > WeightOf(ew, pair)
                     THEN CounterSet(ew, pair, Head(top).w)
                     ELSE ew
         IN  NeighbourEdges(next, Tail(top), nid, minShared)

\* Pass 3: the min_shared_tags filter of the pairwise mode
ThresholdShared(ew, minShared, perNode) ==
    IF minShared > 1 /\ perNode <= 0
    THEN SelectSeq(ew, LAMBDA e : e.w >= minShared)
    ELSE ew

\* edge_weights.most_common(max_edges if max_edges > 0 else None)
EdgesSorted(ew, maxEdges) ==
    IF maxEdges > 0 THEN most_common(ew, maxEdges) ELSE SortByWeightDesc(ew)

\* node_ints
NodeInts(edges) ==
    {edges[i].key[1] : i \in DOMAIN edges} \cup {edges[i].key[2] : i \in DOMAIN edges}

\* points: one per node with an edge, in id order (genres, styles and
\* external_links of a point are left out)
ArtistPoints(edges, ks) ==
    LET ids == SortedInts(NodeInts(edges))
    IN  [i \in DOMAIN ids |-> [id |-> ks[ids[i] + 1], label |-> ks[ids[i] + 1]]]

\* links
ArtistLinks(edges, ks) ==
    [i \in DOMAIN edges |->
        [source |-> ks[edges[i].key[1] + 1],
         target |-> ks[edges[i].key[2] + 1],
         weight |-> edges[i].w]]

\* The variables of build_artist_graph while no call is running
ArtistIdle ==
    /\ artist_pc = "idle"
    /\ min_shared_tags = 2
    /\ max_edges_per_node = 0
    /\ artist_max_nodes = 0
    /\ artist_max_edges = 0
    /\ artist_max_tag_degree = 200
    /\ artist_sample_high_degree = TRUE
    /\ artist_all_tags = <<>>
    /\ keys_sorted = <<>>
    /\ tag_to_nodes = <<>>
    /\ node_tags = <<>>
    /\ node_iter = 0
    /\ artist_tag_items = <<>>
    /\ edge_weights = <<>>
    /\ artist_graph = NoGraph

\* build_artist_graph(records_csv, ...) entered, before the first row
InitArtistCall(mst, k, mn, me, deg, smp) ==
    /\ artist_pc = "scan"
    /\ min_shared_tags = mst
    /\ max_edges_per_node = k
    /\ artist_max_nodes = mn
    /\ artist_max_edges = me
    /\ artist_max_tag_degree = deg
    /\ artist_sample_high_degree = smp
    /\ artist_all_tags = <<>>
    /\ keys_sorted = <<>>
    /\ tag_to_nodes = <<>>
    /\ node_tags = <<>>
    /\ node_iter = 0
    /\ artist_tag_items = <<>>
    /\ edge_weights = <<>>
    /\ artist_graph = NoGraph

artistArgs == <<min_shared_tags, max_edges_per_node, artist_max_nodes,
                artist_max_edges, artist_max_tag_degree, artist_sample_high_degree>>

\* artist_all_tags after one row of the CSV
ArtistTagsAfterRow(aat, aval, edge_tags) ==
    IF aval = "" \/ is_skip_artist(aval) \/ edge_tags = <<>>
    THEN aat
    ELSE MergeTags(aat, aval, edge_tags)

\* Pass 1a: one row of the CSV
ArtistScanRow ==
    \E aval \in ArtistNames, style_tags \in ArtistTagLists :
        /\ prog = "artist"
        /\ artist_pc = "scan"
        /\ LET edge_tags == style_tags
           IN  artist_all_tags' = ArtistTagsAfterRow(artist_all_tags, aval, edge_tags)
        /\ UNCHANGED <<prog, cacheVars, serverVars, coVars, albumVars, artistArgs, artist_pc, keys_sorted,
                       tag_to_nodes, node_tags, node_iter, artist_tag_items,
                       edge_weights, artist_graph>>

\* End of the CSV: Pass 1b (node cap), the integer mapping, the inverted index
\* and node_tags.  list(tags) of a set comes in an order the hash seed
\* decides; the index and the nearest-neighbour loop each draw an order.
ArtistEndScan ==
    /\ prog = "artist"
    /\ artist_pc = "scan"
    /\ LET kept == CapArtists(artist_all_tags, artist_max_nodes)
           ks == SortedArtists({kept[i].key : i \in DOMAIN kept})
       IN  /\ keys_sorted' = ks
           /\ \E o \in TagInsertionOrders(kept) :
                 tag_to_nodes' =
                     [i \in DOMAIN o |->
                         [tag |-> o[i], nids |-> ArtistPostingList(kept, ks, o[i])]]
           /\ node_tags' =
                 [nid \in 0..(Len(ks) - 1) |->
                     kept[CHOOSE i \in DOMAIN kept : kept[i].key = ks[nid + 1]].tags]
    \* del artist_all_tags
    /\ artist_all_tags' = <<>>
    /\ artist_pc' = "degree"
    /\ UNCHANGED <<prog, cacheVars, serverVars, coVars, albumVars, artistArgs, node_iter, artist_tag_items,
                   edge_weights, artist_graph>>

\* The sample / skip loop over the high-degree tags
ArtistDegreeControl ==
    /\ prog = "artist"
    /\ artist_pc = "degree"
    /\ \E controlled \in DegreeControlled(tag_to_nodes, artist_max_tag_degree,
                                          artist_sample_high_degree) :
          /\ tag_to_nodes' = controlled
          /\ artist_tag_items' = IF max_edges_per_node > 0 THEN <<>> ELSE controlled
    \* the pairwise mode starts with del node_tags
    /\ node_tags' = IF max_edges_per_node > 0 THEN node_tags ELSE <<>>
    /\ artist_pc' = "edges"
    /\ UNCHANGED <<prog, cacheVars, serverVars, coVars, albumVars, artistArgs, artist_all_tags, keys_sorted,
                   node_iter, edge_weights, artist_graph>>

\* Nearest-neighbour mode: one node of the loop over range(n_nodes)
ArtistNeighbors ==
    /\ prog = "artist"
    /\ artist_pc = "edges"
    /\ max_edges_per_node > 0
    /\ node_iter < Len(keys_sorted)
    /\ \E tags \in OrdersOf(node_tags[node_iter]) :
          LET overlap == OverlapOf(VisitedOthers(tags, tag_to_nodes, node_iter))
              top == most_common(overlap, max_edges_per_node)
          IN  edge_weights' =
                  NeighbourEdges(edge_weights, top, node_iter, min_shared_tags)
    /\ node_iter' = node_iter + 1
    /\ UNCHANGED <<prog, cacheVars, serverVars, coVars, albumVars, artistArgs, artist_pc, artist_all_tags,
                   keys_sorted, tag_to_nodes, node_tags, artist_tag_items,
                   artist_graph>>

\* Full pairwise mode: one tag of the loop over tag_to_nodes.items()
ArtistPairs ==
    /\ prog = "artist"
    /\ artist_pc = "edges"
    /\ max_edges_per_node <= 0
    /\ artist_tag_items # <<>>
    /\ LET nids == Head(artist_tag_items).nids
       IN  IF Len(nids) < 2
           THEN UNCHANGED edge_weights
           ELSE edge_weights' =
                    CountsAfter(edge_weights,
                                pairs_from_sorted(SortedInts(Range(nids))))
    /\ artist_tag_items' = Tail(artist_tag_items)
    /\ UNCHANGED <<prog, cacheVars, serverVars, coVars, albumVars, artistArgs, artist_pc, artist_all_tags,
                   keys_sorted, tag_to_nodes, node_tags, node_iter, artist_graph>>

\* Pass 3: threshold, sort and cap, points and links
ArtistPass3 ==
    /\ prog = "artist"
    /\ artist_pc = "edges"
    /\ IF max_edges_per_node > 0
       THEN node_iter = Len(keys_sorted)
       ELSE artist_tag_items = <<>>
    /\ LET thresholded == ThresholdShared(edge_weights, min_shared_tags,
                                          max_edges_per_node)
           edges_sorted == EdgesSorted(thresholded, artist_max_edges)
       IN  /\ edge_weights' = thresholded
           /\ artist_graph' =
                 [built |-> TRUE,
                  points |-> ArtistPoints(edges_sorted, keys_sorted),
                  links |-> ArtistLinks(edges_sorted, keys_sorted)]
    \* del node_tags, del tag_to_nodes
    /\ node_tags' = <<>>
    /\ tag_to_nodes' = <<>>
    /\ artist_pc' = "done"
    /\ UNCHANGED <<prog, cacheVars, serverVars, coVars, albumVars, artistArgs, artist_all_tags, keys_sorted,
                   node_iter, artist_tag_items>>

-----------------------------------------------------------------------------
(* CanonicalTableCache and GraphCache *)

CacheKinds == {"canonical", "graph"}

\* The files of a cache_dir.  A file is 0 while absent and n once the n-th
\* call of build_fn has been written to it.
CacheFiles == {"canonical_plays.parquet", "canonical_tracks.parquet",
               "canonical_plays.csv", "canonical_tracks.csv", "graph.json"}

NoFiles == [f \in CacheFiles |-> 0]

\* Where a write sequence of two files fails: 0 nowhere, 1 at the first
\* file, 2 at the second.  A write that fails leaves its file as it was.
WriteFailures == {0, 1, 2}

\* _try_load_cache without its csv branch
try_load_cache_parquet_only(fs) ==
    IF fs["canonical_plays.parquet"] # 0 /\ fs["canonical_tracks.parquet"] # 0
    THEN Some(<<fs["canonical_plays.parquet"], fs["canonical_tracks.parquet"]>>)
    ELSE None

\* CanonicalTableCache._try_load_cache: the tables read, None on a miss
try_load_cache(fs) ==
    IF fs["canonical_plays.parquet"] # 0 /\ fs["canonical_tracks.parquet"] # 0
    THEN Some(<<fs["canonical_plays.parquet"], fs["canonical_tracks.parquet"]>>)
    ELSE IF fs["canonical_plays.csv"] # 0 /\ fs["canonical_tracks.csv"] # 0
    THEN Some(<<fs["canonical_plays.csv"], fs["canonical_tracks.csv"]>>)
    ELSE None

\* the csv branch of _persist
persist_csv(fs, v, csvFails) ==
    IF csvFails = 1 THEN fs
    ELSE IF csvFails = 2 THEN [fs EXCEPT !["canonical_plays.csv"] = v]
    ELSE [fs EXCEPT !["canonical_plays.csv"] = v, !["canonical_tracks.csv"] = v]

\* CanonicalTableCache._persist: parquet, and csv when a parquet write raises
persist(fs, v, parquetFails, csvFails) ==
    IF parquetFails = 0
    THEN [fs EXCEPT !["canonical_plays.parquet"] = v, !["canonical_tracks.parquet"] = v]
    ELSE IF parquetFails = 1
    THEN persist_csv(fs, v, csvFails)
    ELSE persist_csv([fs EXCEPT !["canonical_plays.parquet"] = v], v, csvFails)

\* _persist has written a whole pair of files
persisted(parquetFails, csvFails) == parquetFails = 0 \/ csvFails = 0

\* GraphCache._cache_exists
cache_exists(fs) == fs["graph.json"] # 0 /\ fs["canonical_plays.parquet"] # 0

\* GraphCache._load_graph and the read of the records file
load_graph(fs) == Some(<<fs["graph.json"], fs["canonical_plays.parquet"]>>)

\* GraphCache._save: graph.json, then the records file; a failing write raises
save(fs, v, fails) ==
    IF fails = 1 THEN fs
    ELSE IF fails = 2 THEN [fs EXCEPT !["graph.json"] = v]
    ELSE [fs EXCEPT !["graph.json"] = v, !["canonical_plays.parquet"] = v]

\* load_or_build calls of one run
MaxLoads == 3

NoLoad == [force |-> FALSE, hit |-> FALSE, built |-> FALSE, raised |-> "",
           returned |-> None]

NoBuild == [version |-> 0, force |-> FALSE]

\* The variables of the caches while no cache is in use
CacheIdle ==
    /\ cache_kind = "none"
    /\ files = NoFiles
    /\ build_calls = 0
    /\ loads = 0
    /\ last_load = NoLoad
    /\ last_persisted = NoBuild

\* A cache object on an empty cache_dir
InitCacheDir(kind) ==
    /\ cache_kind = kind
    /\ files = NoFiles
    /\ build_calls = 0
    /\ loads = 0
    /\ last_load = NoLoad
    /\ last_persisted = NoBuild

\* CanonicalTableCache(cache_dir, build_fn, force=force).load_or_build().
\* empty: BuildCanonicalTables returns an empty plays_wide.
CanonicalLoadOrBuild ==
    \E force \in BOOLEAN, empty \in BOOLEAN,
       parquetFails \in WriteFailures, csvFails \in WriteFailures :
        /\ prog = "cache"
        /\ cache_kind = "canonical"
        /\ loads < MaxLoads
        /\ loads' = loads + 1
        /\ LET cached == IF force THEN None ELSE try_load_cache(files)
               v == build_calls + 1
           IN  IF cached # None
               THEN /\ last_load' = [force |-> force, hit |-> TRUE, built |-> FALSE,
                                     raised |-> "", returned |-> cached]
                    /\ UNCHANGED <<files, build_calls, last_persisted>>
               ELSE /\ build_calls' = v
                    /\ IF empty
                       THEN /\ last_load' = [force |-> force, hit |-> FALSE,
                                             built |-> TRUE, raised |-> "RuntimeError",
                                             returned |-> None]
                            /\ UNCHANGED <<files, last_persisted>>
                       ELSE /\ files' = persist(files, v, parquetFails, csvFails)
                            /\ last_load' = [force |-> force, hit |-> FALSE,
                                             built |-> TRUE, raised |-> "",
                                             returned |-> Some(<<v, v>>)]
                            /\ last_persisted' =
                                  IF persisted(parquetFails, csvFails)
                                  THEN [version |-> v, force |-> force]
                                  ELSE last_persisted
        /\ UNCHANGED <<prog, cache_kind, coVars, albumVars, artistVars, serverVars>>

\* GraphCache(cache_dir, build_fn, force=force).load_or_build()
GraphLoadOrBuild ==
    \E force \in BOOLEAN, fails \in WriteFailures :
        /\ prog = "cache"
        /\ cache_kind = "graph"
        /\ loads < MaxLoads
        /\ loads' = loads + 1
        /\ IF ~force /\ cache_exists(files)
           THEN /\ last_load' = [force |-> force, hit |-> TRUE, built |-> FALSE,
                                 raised |-> "", returned |-> load_graph(files)]
                /\ UNCHANGED <<files, build_calls, last_persisted>>
           ELSE LET v == build_calls + 1
                IN  /\ build_calls' = v
                    /\ files' = save(files, v, fails)
                    /\ last_load' = [force |-> force, hit |-> FALSE, built |-> TRUE,
                                     raised |-> IF fails = 0 THEN "" ELSE "OSError",
                                     returned |-> IF fails = 0 THEN Some(<<v, v>>)
                                                  ELSE None]
                    /\ last_persisted' =
                          IF fails = 0 THEN [version |-> v, force |-> force]
                          ELSE last_persisted
        /\ UNCHANGED <<prog, cache_kind, coVars, albumVars, artistVars, serverVars>>

-----------------------------------------------------------------------------
(* The server's canonical plays cache and corrections store *)

\* The variables of the server while it is not running
ServerIdle ==
    /\ threads = <<>>
    /\ pending_csv = <<>>
    /\ overrides_csv = <<>>
    /\ tracks_parquet = {}
    /\ plays_parquet = {}
    /\ canonical_plays = None
    /\ canonical_plays_loaded = FALSE
    /\ requests = 0
    /\ acked = {}
    /\ completed = {}

\* Handler threads of the ThreadingHTTPServer
ThreadIds == {1, 2}

\* trackId of a correction request
TrackIds == {"t1", "t2"}

\* Requests one run of the server accepts
MaxRequests == 3

\* Requests: genre-tracks / album-tracks, and the three correction requests
Requests == {"tracks", "submit", "approve", "deny"}

IdleThread == [op |-> "idle", pc |-> "idle", track_id |-> "", rows |-> <<>>,
               data |-> None, since |-> {}]

\* a handler is running in the thread
Running(th) == th.pc \notin {"idle", "done"}

\* [r for r in rows if r.get("track_id") != track_id]
WithoutTrack(rows, track_id) == SelectSeq(rows, LAMBDA r : r # track_id)

\* The server after serve(): no request yet, the canonical tables as built,
\* the pending CSV as an earlier run left it
InitServerState ==
    /\ threads = [t \in ThreadIds |-> IdleThread]
    /\ pending_csv \in {<<>>, <<"t1">>}
    /\ overrides_csv = <<>>
    /\ tracks_parquet = {}
    /\ plays_parquet = {}
    /\ canonical_plays = None
    /\ canonical_plays_loaded = FALSE
    /\ requests = 0
    /\ acked = {}
    /\ completed = {}

\* The server accepts a request and starts its handler in a thread.  The
\* correction requests that run at the same time are on different track ids.
StartRequest ==
    \E t \in ThreadIds, op \in Requests, track_id \in TrackIds :
        /\ prog = "server"
        /\ requests < MaxRequests
        /\ ~Running(threads[t])
        /\ op = "tracks" => track_id = "t1"
        /\ op # "tracks" =>
              \A u \in ThreadIds : Running(threads[u]) => threads[u].track_id # track_id
        /\ requests' = requests + 1
        /\ threads' = [threads EXCEPT ![t] =
              [op |-> op,
               pc |-> IF op = "tracks" THEN "check" ELSE "read_pending",
               track_id |-> IF op = "tracks" THEN "" ELSE track_id,
               rows |-> <<>>, data |-> None, since |-> completed]]
        /\ acked' = IF op \in {"approve", "deny"} THEN acked \ {track_id} ELSE acked
        /\ UNCHANGED <<prog, coVars, albumVars, artistVars, cacheVars, pending_csv,
                       overrides_csv, tracks_parquet, plays_parquet, canonical_plays,
                       canonical_plays_loaded, completed>>

\* _load_canonical_plays: if _canonical_plays_loaded
LoadCheck ==
    \E t \in ThreadIds :
        /\ prog = "server"
        /\ threads[t].pc = "check"
        /\ threads' = [threads EXCEPT ![t].pc =
              IF canonical_plays_loaded THEN "return" ELSE "read"]
        /\ UNCHANGED <<prog, coVars, albumVars, artistVars, cacheVars, pending_csv,
                       overrides_csv, tracks_parquet, plays_parquet, canonical_plays,
                       canonical_plays_loaded, requests, acked, completed>>

\* _load_canonical_plays: pd.read_parquet(parquet)
LoadRead ==
    \E t \in ThreadIds :
        /\ prog = "server"
        /\ threads[t].pc = "read"
        /\ threads' = [threads EXCEPT ![t].pc = "store",
                                      ![t].data = Some(plays_parquet)]
        /\ UNCHANGED <<prog, coVars, albumVars, artistVars, cacheVars, pending_csv,
                       overrides_csv, tracks_parquet, plays_parquet, canonical_plays,
                       canonical_plays_loaded, requests, acked, completed>>

\* _load_canonical_plays: _canonical_plays = <the table read>
LoadStore ==
    \E t \in ThreadIds :
        /\ prog = "server"
        /\ threads[t].pc = "store"
        /\ canonical_plays' = threads[t].data
        /\ threads' = [threads EXCEPT ![t].pc = "flag"]
        /\ UNCHANGED <<prog, coVars, albumVars, artistVars, cacheVars, pending_csv,
                       overrides_csv, tracks_parquet, plays_parquet,
                       canonical_plays_loaded, requests, acked, completed>>

\* _load_canonical_plays: _canonical_plays_loaded = True
LoadFlag ==
    \E t \in ThreadIds :
        /\ prog = "server"
        /\ threads[t].pc = "flag"
        /\ canonical_plays_loaded' = TRUE
        /\ threads' = [threads EXCEPT ![t].pc = "return"]
        /\ UNCHANGED <<prog, coVars, albumVars, artistVars, cacheVars, pending_csv,
                       overrides_csv, tracks_parquet, plays_parquet, canonical_plays,
                       requests, acked, completed>>

\* _load_canonical_plays: return _canonical_plays; the handler answers from it
LoadReturn ==
    \E t \in ThreadIds :
        /\ prog = "server"
        /\ threads[t].pc = "return"
        /\ threads' = [threads EXCEPT ![t].pc = "done", ![t].data = canonical_plays]
        /\ UNCHANGED <<prog, coVars, albumVars, artistVars, cacheVars, pending_csv,
                       overrides_csv, tracks_parquet, plays_parquet, canonical_plays,
                       canonical_plays_loaded, requests, acked, completed>>

\* submit, approve, deny: _read_csv_rows(PENDING_CSV, ...); approve answers
\* 404 when the track has no pending row
ReadPending ==
    \E t \in ThreadIds :
        /\ prog = "server"
        /\ threads[t].pc = "read_pending"
        /\ threads' = [threads EXCEPT
              ![t].rows = pending_csv,
              ![t].pc = IF threads[t].op = "approve"
                        THEN IF threads[t].track_id \in Range(pending_csv)
                             THEN "overrides" ELSE "done"
                        ELSE "write_pending"]
        /\ UNCHANGED <<prog, coVars, albumVars, artistVars, cacheVars, pending_csv,
                       overrides_csv, tracks_parquet, plays_parquet, canonical_plays,
                       canonical_plays_loaded, requests, acked, completed>>

\* _apply_correction: the upsert into OVERRIDES_CSV (its read and its write
\* are taken as one step)
ApplyOverride ==
    \E t \in ThreadIds :
        /\ prog = "server"
        /\ threads[t].pc = "overrides"
        /\ overrides_csv' =
              Append(WithoutTrack(overrides_csv, threads[t].track_id), threads[t].track_id)
        /\ threads' = [threads EXCEPT ![t].pc = "patch_tracks"]
        /\ UNCHANGED <<prog, coVars, albumVars, artistVars, cacheVars, pending_csv,
                       tracks_parquet, plays_parquet, canonical_plays,
                       canonical_plays_loaded, requests, acked, completed>>

\* _patch_canonical_tables: canonical_tracks.parquet (read, patch and write
\* are taken as one step)
PatchTracks ==
    \E t \in ThreadIds :
        /\ prog = "server"
        /\ threads[t].pc = "patch_tracks"
        /\ tracks_parquet' = tracks_parquet \cup {threads[t].track_id}
        /\ threads' = [threads EXCEPT ![t].pc = "patch_plays"]
        /\ UNCHANGED <<prog, coVars, albumVars, artistVars, cacheVars, pending_csv,
                       overrides_csv, plays_parquet, canonical_plays,
                       canonical_plays_loaded, requests, acked, completed>>

\* _patch_canonical_tables: canonical_plays.parquet (read, patch and write
\* are taken as one step)
PatchPlays ==
    \E t \in ThreadIds :
        /\ prog = "server"
        /\ threads[t].pc = "patch_plays"
        /\ plays_parquet' = plays_parquet \cup {threads[t].track_id}
        /\ threads' = [threads EXCEPT ![t].pc = "reset"]
        /\ UNCHANGED <<prog, coVars, albumVars, artistVars, cacheVars, pending_csv,
                       overrides_csv, tracks_parquet, canonical_plays,
                       canonical_plays_loaded, requests, acked, completed>>

\* _patch_canonical_tables: _canonical_plays = None
ResetPlays ==
    \E t \in ThreadIds :
        /\ prog = "server"
        /\ threads[t].pc = "reset"
        /\ canonical_plays' = None
        /\ threads' = [threads EXCEPT ![t].pc = "reset_flag"]
        /\ UNCHANGED <<prog, coVars, albumVars, artistVars, cacheVars, pending_csv,
                       overrides_csv, tracks_parquet, plays_parquet,
                       canonical_plays_loaded, requests, acked, completed>>

\* _patch_canonical_tables: _canonical_plays_loaded = False, and its return
ResetFlag ==
    \E t \in ThreadIds :
        /\ prog = "server"
        /\ threads[t].pc = "reset_flag"
        /\ canonical_plays_loaded' = FALSE
        /\ completed' = completed \cup {threads[t].track_id}
        /\ threads' = [threads EXCEPT ![t].pc = "write_pending"]
        /\ UNCHANGED <<prog, coVars, albumVars, artistVars, cacheVars, pending_csv,
                       overrides_csv, tracks_parquet, plays_parquet, canonical_plays,
                       requests, acked>>

\* submit, approve, deny: _write_csv_rows(PENDING_CSV, ...) of the rows read
\* earlier, filtered, and for submit with the new row appended; then the
\* answer {"ok": true}
WritePending ==
    \E t \in ThreadIds :
        /\ prog = "server"
        /\ threads[t].pc = "write_pending"
        /\ LET remaining == WithoutTrack(threads[t].rows, threads[t].track_id)
           IN  pending_csv' = IF threads[t].op = "submit"
                              THEN Append(remaining, threads[t].track_id)
                              ELSE remaining
        /\ acked' = IF threads[t].op = "submit"
                    THEN acked \cup {threads[t].track_id}
                    ELSE acked
        /\ threads' = [threads EXCEPT ![t].pc = "done"]
        /\ UNCHANGED <<prog, coVars, albumVars, artistVars, cacheVars, overrides_csv,
                       tracks_parquet, plays_parquet, canonical_plays,
                       canonical_plays_loaded, requests, completed>>

InitAlbum ==
    /\ prog = "album"
    /\ InitBuilder(2, 0, 0)
    /\ ArtistIdle
    /\ CacheIdle
    /\ ServerIdle
    /\ \E mw \in MinWeightValues, mn \in AlbumMaxNodesValues,
          me \in AlbumMaxEdgesValues, deg \in MaxTagDegreeValues,
          smp \in BOOLEAN, unw \in BOOLEAN, mew \in MaxEdgeWeightValues,
          cap \in BatchCapValues :
          InitAlbumCall(mw, mn, me, deg, smp, unw, mew, cap)

InitArtist ==
    /\ prog = "artist"
    /\ InitBuilder(2, 0, 0)
    /\ AlbumIdle
    /\ CacheIdle
    /\ ServerIdle
    /\ \E mst \in MinSharedTagsValues, k \in MaxEdgesPerNodeValues,
          mn \in ArtistMaxNodesValues, me \in ArtistMaxEdgesValues,
          deg \in EntityMaxTagDegreeValues, smp \in BOOLEAN :
          InitArtistCall(mst, k, mn, me, deg, smp)

\* build_album_graph with the weight clip among its arguments
InitAlbumClip ==
    /\ prog = "album"
    /\ InitBuilder(2, 0, 0)
    /\ ArtistIdle
    /\ CacheIdle
    /\ ServerIdle
    /\ \E mw \in MinWeightValues, deg \in EntityMaxTagDegreeValues,
          smp \in BOOLEAN, mew \in ClipValues, cap \in BatchCapValues :
          InitAlbumCall(mw, 0, 0, deg, smp, FALSE, mew, cap)

-----------------------------------------------------------------------------
(* Specifications *)

InitCooccurrence ==
    /\ prog = "cooccurrence"
    /\ AlbumIdle
    /\ ArtistIdle
    /\ CacheIdle
    /\ ServerIdle
    /\ \E m \in MinCooccurrenceValues, n \in MaxNodesValues, e \in MaxEdgesValues :
          InitBuilder(m, n, e)

Init == InitCooccurrence \/ InitAlbum

Next ==
    \/ Add
    \/ Build
    \/ ScanRow
    \/ EndScan
    \/ TagStep
    \/ EndTags
    \/ Pass3

Spec == Init /\ [][Next]_vars

\* CooccurrenceBuilder(): the dataclass defaults
\* One call of build_album_graph or of build_artist_graph
InitEntity == InitAlbumClip \/ InitArtist

NextEntity ==
    \/ ScanRow
    \/ EndScan
    \/ TagStep
    \/ EndTags
    \/ Pass3
    \/ ArtistScanRow
    \/ ArtistEndScan
    \/ ArtistDegreeControl
    \/ ArtistNeighbors
    \/ ArtistPairs
    \/ ArtistPass3

SpecEntity == InitEntity /\ [][NextEntity]_vars

\* One call of build_album_graph or of build_artist_graph with a node cap
NodeCapValues == {1, 2}

InitAlbumCap ==
    /\ prog = "album"
    /\ InitBuilder(2, 0, 0)
    /\ ArtistIdle
    /\ CacheIdle
    /\ ServerIdle
    /\ \E mn \in NodeCapValues : InitAlbumCall(1, mn, 0, 3, FALSE, FALSE, 0, 3)

InitArtistCap ==
    /\ prog = "artist"
    /\ InitBuilder(2, 0, 0)
    /\ AlbumIdle
    /\ CacheIdle
    /\ ServerIdle
    /\ \E mn \in NodeCapValues, k \in MaxEdgesPerNodeValues :
          InitArtistCall(1, k, mn, 0, 3, FALSE)

InitCap == InitAlbumCap \/ InitArtistCap

SpecCap == InitCap /\ [][NextEntity]_vars

\* The server under concurrent requests
InitServer ==
    /\ prog = "server"
    /\ InitBuilder(2, 0, 0)
    /\ AlbumIdle
    /\ ArtistIdle
    /\ CacheIdle
    /\ InitServerState

NextServer ==
    \/ StartRequest
    \/ LoadCheck
    \/ LoadRead
    \/ LoadStore
    \/ LoadFlag
    \/ LoadReturn
    \/ ReadPending
    \/ ApplyOverride
    \/ PatchTracks
    \/ PatchPlays
    \/ ResetPlays
    \/ ResetFlag
    \/ WritePending

SpecServer == InitServer /\ [][NextServer]_vars

\* load_or_build calls on one cache_dir, of a CanonicalTableCache or a GraphCache
InitCache ==
    /\ prog = "cache"
    /\ InitBuilder(2, 0, 0)
    /\ AlbumIdle
    /\ ArtistIdle
    /\ ServerIdle
    /\ \E kind \in CacheKinds : InitCacheDir(kind)

NextCache == CanonicalLoadOrBuild \/ GraphLoadOrBuild

SpecCache == InitCache /\ [][NextCache]_vars

InitAdd ==
    /\ prog = "cooccurrence"
    /\ AlbumIdle
    /\ ArtistIdle
    /\ CacheIdle
    /\ ServerIdle
    /\ InitBuilder(2, 0, 0)

NextAdd == AddLogged

SpecAdd == InitAdd /\ [][NextAdd]_vars

\* CooccurrenceBuilder(min_cooccurrence=m), then logged add(),
\* build() and reset() calls in any order
InitSeen ==
    /\ prog = "cooccurrence"
    /\ AlbumIdle
    /\ ArtistIdle
    /\ CacheIdle
    /\ ServerIdle
    /\ \E m \in MinCooccurrenceValues : InitBuilder(m, 0, 0)

NextSeen ==
    \/ AddLogged
    \/ Build
    \/ Reset

SpecSeen == InitSeen /\ [][NextSeen]_vars

\* CooccurrenceBuilder(min_cooccurrence=1), then add() calls with and without
\* tag_categories, and build()
InitCategories ==
    /\ prog = "cooccurrence"
    /\ AlbumIdle
    /\ ArtistIdle
    /\ CacheIdle
    /\ ServerIdle
    /\ InitBuilder(1, 0, 0)

NextCategories ==
    \/ Add
    \/ AddWithCategories
    \/ Build

SpecCategories == InitCategories /\ [][NextCategories]_vars

-----------------------------------------------------------------------------
(* Properties of the accumulation (SpecAdd) *)

\* the logged add() calls whose tag list holds both a and b
CallsWithBoth(a, b) ==
    {i \in DOMAIN adds : a \in Range(adds[i].tags) /\ b \in Range(adds[i].tags)}

\* C1: the accumulated weight of every canonical pair (a, b), a < b, of
\* non-empty tags is the number of add() calls whose tags hold both a and b
\* (a tag repeated inside one call counts once), and the counter holds only
\* such pairs, each once.
C1_PairWeightIsCallCount ==
    /\ \A i \in DOMAIN counts :
          /\ counts[i].key[1] # ""
          /\ StrLt(counts[i].key[1], counts[i].key[2])
          /\ \A j \in DOMAIN counts : counts[j].key = counts[i].key => j = i
    /\ \A a \in Tags \ {""}, b \in Tags \ {""} :
          StrLt(a, b) =>
              WeightOf(counts, <<a, b>>) = Cardinality(CallsWithBoth(a, b))

\* C1 witness: a pair counted twice, after a call that repeats a tag and a
\* call that holds an empty tag and three unique tags' worth of pairs.
C1_Witness ==
    /\ \E i \in DOMAIN counts : counts[i].w = 2
    /\ \E i \in DOMAIN adds :
          Len(adds[i].tags) > Cardinality(Range(adds[i].tags))
    /\ \E i \in DOMAIN adds : "" \in Range(adds[i].tags)
    /\ \E i \in DOMAIN adds : Len(PairKeys(adds[i].tags)) = 3

\* the accumulators after the add() calls of log, made on a fresh builder
RECURSIVE ReplayCounts(_)
ReplayCounts(log) ==
    IF log = <<>> THEN <<>>
    ELSE CHOOSE cs \in { CountsOnAdd(prev, log[Len(log)].tags) :
                            prev \in {ReplayCounts(SubSeq(log, 1, Len(log) - 1))} } : TRUE

RECURSIVE ReplayNodeFirstSeen(_)
ReplayNodeFirstSeen(log) ==
    IF log = <<>> THEN EmptyMap
    ELSE CHOOSE d \in { NodeFirstSeenOnAdd(prev, log[Len(log)].tags,
                                            log[Len(log)].timestamp_ms) :
                           prev \in {ReplayNodeFirstSeen(SubSeq(log, 1, Len(log) - 1))} } : TRUE

RECURSIVE ReplayEdgeFirstSeen(_)
ReplayEdgeFirstSeen(log) ==
    IF log = <<>> THEN EmptyMap
    ELSE CHOOSE d \in { EdgeFirstSeenOnAdd(prev, log[Len(log)].tags,
                                            log[Len(log)].timestamp_ms) :
                           prev \in {ReplayEdgeFirstSeen(SubSeq(log, 1, Len(log) - 1))} } : TRUE

Permuted(log, p) == [i \in DOMAIN log |-> log[p[i]]]

\* C9: the same observations fed to add() in any other order give the same
\* pair weights and the same node and edge first-seen timestamps.
C9_OrderIndependent ==
    \A p \in Permutations(DOMAIN adds) :
        LET log == Permuted(adds, p)
        IN  /\ Range(ReplayCounts(log)) = Range(counts)
            /\ ReplayNodeFirstSeen(log) = node_first_seen
            /\ ReplayEdgeFirstSeen(log) = edge_first_seen

\* C9 witness: three calls with timestamps, the later one the earlier in time,
\* and an order of the same calls that fills the counter in another order.
C9_Witness ==
    /\ Len(adds) = 3
    /\ \E i \in DOMAIN adds, j \in DOMAIN adds :
          /\ i < j
          /\ adds[i].timestamp_ms # None /\ adds[j].timestamp_ms # None
          /\ adds[j].timestamp_ms[1] < adds[i].timestamp_ms[1]
          /\ Range(PairKeys(adds[i].tags)) \cap Range(PairKeys(adds[j].tags)) # {}
    /\ \E p \in Permutations(DOMAIN adds) :
          ReplayCounts(Permuted(adds, p)) # counts

-----------------------------------------------------------------------------
(* Properties of CooccurrenceBuilder.build (Spec) *)

LinkSet(g) == {g.links[i] : i \in DOMAIN g.links}

LinkPairs(g) == {<<g.links[i].source, g.links[i].target>> : i \in DOMAIN g.links}

PointIds(g) == {g.points[i].id : i \in DOMAIN g.points}

\* what build() would return on the accumulated state with threshold m
BuildWith(m) ==
    BuildGraph(counts, node_first_seen, edge_first_seen, node_labels,
               m, max_nodes, max_edges)

\* the thresholded edges of the accumulated state
Thresholded == ThresholdEdges(counts, min_cooccurrence)

\* the edges left after the threshold and the node cap
NodeCapped == CapNodes(Thresholded, max_nodes)

\* C2: every link returned by build() has source <= target and
\* weight >= min_cooccurrence.
C2_LinksCanonicalAboveThreshold ==
    graph.built =>
        \A i \in DOMAIN graph.links :
            /\ StrLe(graph.links[i].source, graph.links[i].target)
            /\ graph.links[i].weight >= min_cooccurrence

\* C2 witness: a build with threshold 2 that returns a link and leaves out a
\* pair seen once.
C2_Witness ==
    /\ graph.built
    /\ min_cooccurrence = 2
    /\ graph.links # <<>>
    /\ \E i \in DOMAIN counts : counts[i].w < min_cooccurrence

\* the node cap removes nothing at the builder's threshold
NodeCapIdle ==
    max_nodes = 0 \/ Cardinality(NodeIds(Thresholded)) <= max_nodes

\* C4 as stated: for the same add() calls, max_nodes and max_edges, the links
\* returned with a higher threshold are among those returned with the lower.
C4_ThresholdMonotone ==
    graph.built =>
        \A m2 \in MinCooccurrenceValues :
            m2 > min_cooccurrence => LinkSet(BuildWith(m2)) \subseteq LinkSet(graph)

\* C4 amended: the same, when the node cap removes nothing at the lower
\* threshold (max_nodes = 0, or at most max_nodes nodes have an edge that
\* reaches the lower threshold); max_edges is arbitrary.
C4_ThresholdMonotoneNodeCapIdle ==
    (graph.built /\ NodeCapIdle) =>
        \A m2 \in MinCooccurrenceValues :
            m2 > min_cooccurrence => LinkSet(BuildWith(m2)) \subseteq LinkSet(graph)

\* C4 witness: a node cap that is set but idle, and a higher threshold that
\* keeps some links of the build and drops others.
C4_Witness ==
    /\ graph.built
    /\ max_nodes > 0
    /\ NodeCapIdle
    /\ \E m2 \in MinCooccurrenceValues :
          /\ m2 > min_cooccurrence
          /\ BuildWith(m2).links # <<>>
          /\ LinkSet(BuildWith(m2)) # LinkSet(graph)

\* sum of the weights of the edges at node n
RECURSIVE StrengthOf(_, _)
StrengthOf(edges, n) ==
    IF edges = <<>> THEN 0
    ELSE (IF n \in {Head(edges).key[1], Head(edges).key[2]} THEN Head(edges).w ELSE 0)
         + StrengthOf(Tail(edges), n)

\* n is ranked before m in the order (strength descending, id ascending)
RankedBefore(edges, n, m) ==
    \/ StrengthOf(edges, n) > StrengthOf(edges, m)
    \/ StrengthOf(edges, n) = StrengthOf(edges, m) /\ StrLt(n, m)

\* the first k nodes in the order (strength descending, id ascending)
TopNodesByStrengthThenId(edges, k) ==
    {n \in NodeIds(edges) :
        Cardinality({m \in NodeIds(edges) : RankedBefore(edges, m, n)}) < k}

\* C6 as stated: when more than max_nodes nodes have a thresholded edge, the
\* kept nodes are the first max_nodes in the order (strength descending, id
\* ascending) and exactly the edges between kept nodes go on.
C6_NodeCapByStrengthThenId ==
    (graph.built /\ max_nodes > 0 /\ Cardinality(NodeIds(Thresholded)) > max_nodes) =>
        /\ KeepNodes(Thresholded, max_nodes)
              = TopNodesByStrengthThenId(Thresholded, max_nodes)
        /\ NodeCapped =
              SelectSeq(Thresholded,
                        LAMBDA e : /\ e.key[1] \in TopNodesByStrengthThenId(Thresholded, max_nodes)
                                   /\ e.key[2] \in TopNodesByStrengthThenId(Thresholded, max_nodes))

\* e is ranked before f in the order (weight descending, pair ascending)
EdgeRankedBefore(e, f) ==
    \/ e.w > f.w
    \/ e.w = f.w /\ e.key # f.key /\ PairLe(e.key, f.key)

\* the first k edges in the order (weight descending, pair ascending)
TopEdgesByWeightThenPair(edges, k) ==
    {e \in Range(edges) :
        Cardinality({f \in Range(edges) : EdgeRankedBefore(f, e)}) < k}

\* C7 as stated: when more than max_edges edges are left after the threshold
\* and the node cap, the links are the first max_edges of them in the order
\* (weight descending, pair ascending).
C7_EdgeCapByWeightThenPair ==
    (graph.built /\ max_edges > 0 /\ Len(NodeCapped) > max_edges) =>
        LinkPairs(graph)
            = {e.key : e \in TopEdgesByWeightThenPair(NodeCapped, max_edges)}

\* C8: with max_nodes = N > 0 build() returns at most N points, and with
\* max_edges = E > 0 at most E links.
C8_CapsAreUpperBounds ==
    graph.built =>
        /\ max_nodes > 0 => Len(graph.points) <= max_nodes
        /\ max_edges > 0 => Len(graph.links) <= max_edges

\* C8 witness: a build where both caps cut: more nodes than max_nodes have a
\* thresholded edge, and more edges than max_edges are left after the node cap.
C8_Witness ==
    /\ graph.built
    /\ max_nodes > 0 /\ Cardinality(NodeIds(Thresholded)) > max_nodes
    /\ max_edges > 0 /\ Len(NodeCapped) > max_edges
    /\ Len(graph.links) = max_edges

\* C10: build() changes no accumulated state, and a build() that follows a
\* build() with no add() in between returns the same points and links, in
\* the same order.
C10_BuildIdempotent ==
    [][builds' > builds =>
          /\ UNCHANGED <<counts, node_first_seen, edge_first_seen, node_labels,
                         rows_seen, rows_with_tags, rows_with_pairs>>
          /\ builds >= 1 => graph' = graph]_vars

\* C10 witness: a second build() in a row, returning several links.
C10_Witness ==
    /\ builds = 2
    /\ graph.built
    /\ Len(graph.links) >= 2

-----------------------------------------------------------------------------
(* Properties of both builders (Spec) *)

\* the source and target ids of the links of g
LinkEndpoints(g) ==
    {g.links[i].source : i \in DOMAIN g.links}
        \cup {g.links[i].target : i \in DOMAIN g.links}

\* C3: in every graph returned by CooccurrenceBuilder.build and by
\* build_album_graph the set of point ids is exactly the set of source and
\* target ids of the returned links: every endpoint is a point, and a tag or
\* album whose edges were all removed is not a point.
C3_PointsAreLinkEndpoints ==
    /\ graph.built => PointIds(graph) = LinkEndpoints(graph)
    /\ album_graph.built => PointIds(album_graph) = LinkEndpoints(album_graph)

\* C3 witness: build() returned links, and a tag seen by add() lost all its
\* edges to the threshold or a cap.
C3_Witness ==
    /\ graph.built
    /\ graph.links # <<>>
    /\ \E t \in DOMAIN node_labels : t # "" /\ t \notin PointIds(graph)

\* the single-shot exact count of a pair of int ids: the number of posting
\* lists, after degree control, that hold both
ExactCount(r, c) ==
    LET lists == {S \in DOMAIN emitted : r \in S /\ c \in S}
        RECURSIVE Total(_)
        Total(L) ==
            IF L = {} THEN 0
            ELSE LET S == CHOOSE S \in L : TRUE
                 IN  emitted[S] + Total(L \ {S})
    IN  Total(lists)

\* C5: in weighted mode with max_edge_weight = 0, whatever the batch
\* threshold, the weight of every link build_album_graph returns is the
\* exact count of its pair: the number of non-skipped posting lists, after
\* sampling, that hold both albums.
C5_WeightsAreExactCounts ==
    (album_graph.built /\ ~unweighted /\ max_edge_weight = 0) =>
        \A i \in DOMAIN album_graph.links :
            album_graph.links[i].weight =
                ExactCount(StrToInt(int_to_str, album_graph.links[i].source),
                           StrToInt(int_to_str, album_graph.links[i].target))

-----------------------------------------------------------------------------
(* Properties of logged add(), build() and reset() calls (SpecSeen) *)

\* the timestamps of the logged add() calls whose tag list holds every tag of T
StampsOf(T) ==
    {adds[i].timestamp_ms[1] :
        i \in {j \in DOMAIN adds :
                  T \subseteq Range(adds[j].tags) /\ adds[j].timestamp_ms # None}}

\* first_seen is absent when no call with the tags of T had a timestamp, and
\* the least such timestamp otherwise
FirstSeenIsMin(first_seen, T) ==
    IF StampsOf(T) = {}
    THEN first_seen = None
    ELSE /\ first_seen # None
         /\ first_seen[1] \in StampsOf(T)
         /\ \A t \in StampsOf(T) : first_seen[1] <= t

\* C11: for every point and link returned by build(), first_seen is present
\* iff some add() call that held the tag (for a link: both tags) carried a
\* timestamp, and then it is the minimum timestamp over those calls.
C11_FirstSeenIsMinTimestamp ==
    graph.built =>
        /\ \A i \in DOMAIN graph.points :
              FirstSeenIsMin(graph.points[i].first_seen, {graph.points[i].id})
        /\ \A i \in DOMAIN graph.links :
              FirstSeenIsMin(graph.links[i].first_seen,
                             {graph.links[i].source, graph.links[i].target})

\* C11 witness: a returned link whose pair was first added with timestamp 2
\* and later with timestamp 1, next to a point with no first_seen.
C11_Witness ==
    /\ graph.built
    /\ \E k \in DOMAIN graph.links :
          /\ graph.links[k].first_seen = Some(1)
          /\ \E i, j \in DOMAIN adds :
                /\ i < j
                /\ {graph.links[k].source, graph.links[k].target}
                       \subseteq (Range(adds[i].tags) \cap Range(adds[j].tags))
                /\ adds[i].timestamp_ms = Some(2)
                /\ adds[j].timestamp_ms = Some(1)
    /\ \E k \in DOMAIN graph.points : graph.points[k].first_seen = None

\* no pair of non-empty tags was in min_cooccurrence logged add() calls
NoPairReachedThreshold ==
    \A a \in Tags \ {""}, b \in Tags \ {""} :
        a # b => Cardinality(CallsWithBoth(a, b)) < min_cooccurrence

\* C12: when no pair has reached min_cooccurrence (no add() calls, only empty
\* or single-tag observations, or pairs seen too rarely), build() returns
\* exactly points = [] and links = [].
C12_BuildOfNoPairsIsEmpty ==
    (graph.built /\ NoPairReachedThreshold) =>
        graph.points = <<>> /\ graph.links = <<>>

\* C12 witness: a build after add() calls that were all empty or single-tag,
\* with both kinds among them.
C12_Witness ==
    /\ graph.built
    /\ graph.points = <<>> /\ graph.links = <<>>
    /\ \E i \in DOMAIN adds : adds[i].tags = <<>>
    /\ \E i \in DOMAIN adds : adds[i].tags = <<"a">>
    /\ \A i \in DOMAIN adds : Cardinality(Range(adds[i].tags) \ {""}) < 2

\* C13: after reset() the accumulated state is that of a fresh builder, the
\* three configuration fields are unchanged, and build() on it returns the
\* empty graph.
C13_ResetRestoresFresh ==
    [][last_call' = "reset" =>
          /\ counts' = <<>>
          /\ node_first_seen' = EmptyMap
          /\ edge_first_seen' = EmptyMap
          /\ node_labels' = EmptyMap
          /\ rows_seen' = 0 /\ rows_with_tags' = 0 /\ rows_with_pairs' = 0
          /\ UNCHANGED <<min_cooccurrence, max_nodes, max_edges>>
          /\ BuildGraph(counts', node_first_seen', edge_first_seen', node_labels',
                        min_cooccurrence', max_nodes', max_edges')
                = [built |-> TRUE, points |-> <<>>, links |-> <<>>]]_vars

\* C13 witness: the state after a reset() of a builder with a non-default
\* threshold.
C13_Witness ==
    /\ last_call = "reset"
    /\ min_cooccurrence = 1
    /\ rows_seen = 0

\* the row statistics count the logged calls
StatsCountCalls ==
    /\ rows_seen = Len(adds)
    /\ rows_with_tags = Cardinality({i \in DOMAIN adds : adds[i].tags # <<>>})
    /\ rows_with_pairs =
          Cardinality({i \in DOMAIN adds :
                          Cardinality(Range(adds[i].tags) \ {""}) >= 2})
    /\ rows_seen >= rows_with_tags
    /\ rows_with_tags >= rows_with_pairs

\* an add() with an empty tag list changes rows_seen and nothing else
EmptyAddOnlyCounts ==
    (Len(adds') = Len(adds) + 1 /\ adds'[Len(adds')].tags = <<>>) =>
        /\ rows_seen' = rows_seen + 1
        /\ UNCHANGED <<counts, node_first_seen, edge_first_seen, node_labels,
                       rows_with_tags, rows_with_pairs>>

\* C14: rows_seen is the number of add() calls, rows_with_tags the number of
\* calls with a non-empty tag list, rows_with_pairs the number of calls that
\* produced a pair, so rows_seen >= rows_with_tags >= rows_with_pairs; an
\* add() with an empty tag list changes rows_seen only.
C14_StatsCountCalls == []StatsCountCalls /\ [][EmptyAddOnlyCounts]_vars

\* C14 witness: three calls, one empty, one with a single tag, one with pairs.
C14_Witness ==
    /\ rows_seen = 3
    /\ rows_with_tags = 2
    /\ rows_with_pairs = 1
    /\ \E i \in DOMAIN adds : adds[i].tags = <<>>

\* C15: without a reset, the weight of every pair is a non-negative integer
\* that an add() changes by 0 or by +1 and a build() does not change.
C15_WeightsNeverDecrease ==
    [][last_call' # "reset" =>
          \A a \in Tags, b \in Tags :
              /\ WeightOf(counts', <<a, b>>) >= 0
              /\ WeightOf(counts', <<a, b>>) - WeightOf(counts, <<a, b>>) \in {0, 1}
              /\ last_call' = "build" =>
                    WeightOf(counts', <<a, b>>) = WeightOf(counts, <<a, b>>)]_vars

\* C15 witness: a build() over a pair added twice and a pair added once.
C15_Witness ==
    /\ graph.built
    /\ \E i \in DOMAIN counts : counts[i].w = 2
    /\ \E i \in DOMAIN counts : counts[i].w = 1

-----------------------------------------------------------------------------
(* Properties of build_album_graph and build_artist_graph (SpecEntity) *)

\* C(n, 2)
Choose2(n) == (n * (n - 1)) \div 2

\* the ascending pairs of the members of a posting list
AscendingPairs(list) ==
    {<<a, b>> : a \in Range(list), b \in Range(list)} \ {p \in Range(list) \X Range(list) : p[1] >= p[2]}

\* how often a bag holds x
BagCount(b, x) == IF x \in DOMAIN b THEN b[x] ELSE 0

\* the number of members of a bag
RECURSIVE BagTotalOver(_, _)
BagTotalOver(b, D) ==
    IF D = {} THEN 0
    ELSE LET x == CHOOSE y \in D : TRUE IN b[x] + BagTotalOver(b, D \ {x})

BagTotal(b) == BagTotalOver(b, DOMAIN b)

\* the sum of the weights of a Counter
RECURSIVE CounterTotal(_)
CounterTotal(cs) == IF cs = <<>> THEN 0 ELSE Head(cs).w + CounterTotal(Tail(cs))

\* The Pass 2 step of build_album_graph on one tag: what the tag adds to the
\* pair observations, against its posting list before the degree control
AlbumTagContribution ==
    (prog = "album" /\ pc = "edges" /\ tag_items # <<>> /\ tag_items' = Tail(tag_items)) =>
        LET list == Head(tag_items).ints
            added == BagTotal(observations') - BagTotal(observations)
        IN  IF Len(list) > max_tag_degree
            THEN IF sample_high_degree
                 THEN added <= Choose2(max_tag_degree)
                 ELSE added = 0
            ELSE \A p \in DOMAIN observations' \cup AscendingPairs(list) :
                    BagCount(observations', p) - BagCount(observations, p)
                        = IF p \in AscendingPairs(list) THEN 1 ELSE 0

\* The sample / skip loop of build_artist_graph: an over-degree tag leaves the
\* index or keeps max_tag_degree of its nodes, every other tag keeps its list
ArtistTagsControlled ==
    (prog = "artist" /\ artist_pc = "degree" /\ artist_pc' = "edges") =>
        \A i \in DOMAIN tag_to_nodes :
            LET tag == tag_to_nodes[i].tag
                list == tag_to_nodes[i].nids
                left == NodesOfTag(tag_to_nodes', tag)
            IN  IF Len(list) > artist_max_tag_degree
                THEN IF artist_sample_high_degree
                     THEN /\ Len(left) = artist_max_tag_degree
                          /\ Cardinality(Range(left)) = Len(left)
                          /\ Range(left) \subseteq Range(list)
                     ELSE \A j \in DOMAIN tag_to_nodes' : tag_to_nodes'[j].tag # tag
                ELSE left = list

\* The pairwise step of build_artist_graph on one tag of the controlled index
ArtistTagContribution ==
    (prog = "artist" /\ artist_pc = "edges" /\ artist_tag_items # <<>>
        /\ artist_tag_items' = Tail(artist_tag_items)) =>
        LET list == Head(artist_tag_items).nids
        IN  /\ CounterTotal(edge_weights') - CounterTotal(edge_weights)
                   <= Choose2(artist_max_tag_degree)
            /\ \A a \in 0..Len(keys_sorted), b \in 0..Len(keys_sorted) :
                   WeightOf(edge_weights', <<a, b>>) - WeightOf(edge_weights, <<a, b>>)
                       = IF <<a, b>> \in AscendingPairs(list) THEN 1 ELSE 0

C17_SamplingIsSeeded ==
    /\ (prog = "album" /\ pc = "edges" /\ tag_items # <<>>) =>
          Cardinality(DegreeControl(Head(tag_items).ints, max_tag_degree,
                                    sample_high_degree)) = 1
    /\ (prog = "artist" /\ artist_pc = "degree") =>
          Cardinality(DegreeControlled(tag_to_nodes, artist_max_tag_degree,
                                       artist_sample_high_degree)) = 1

\* C18: in weighted mode every link that build_album_graph returns has a
\* weight of at least min_weight, whatever max_edge_weight is.
C18_LinkWeightAtLeastMinWeight ==
    (prog = "album" /\ album_graph.built /\ ~unweighted) =>
        \A i \in DOMAIN album_graph.links :
            album_graph.links[i].weight >= min_weight

\* the number of links of a graph that end at the node with this id
LinksAt(g, id) ==
    Cardinality({i \in DOMAIN g.links :
                    g.links[i].source = id \/ g.links[i].target = id})

\* C19: with max_edges_per_node = K > 0, every node of the graph that
\* build_artist_graph returns is an endpoint of at most K links.
C19_AtMostKLinksPerNode ==
    (prog = "artist" /\ artist_graph.built /\ max_edges_per_node > 0) =>
        \A i \in DOMAIN artist_graph.points :
            LinksAt(artist_graph, artist_graph.points[i].id) <= max_edges_per_node

-----------------------------------------------------------------------------
(* Properties of add() with tag_categories (SpecCategories) *)

\* C20: add() accepts a tag_categories mapping without error, and build()
\* then puts a 'category' field on the point of every tag that was given a
\* category, and on no other point.
C20_CategoriesReachPoints ==
    /\ raised = ""
    /\ graph.built =>
          \A i \in DOMAIN graph.points :
              ("category" \in DOMAIN graph.points[i])
                  <=> (graph.points[i].id \in categorized)

-----------------------------------------------------------------------------
(* Properties of the build-or-load caches (SpecCache) *)

\* the cache files of the cache_dir are present: a whole parquet or csv pair
\* of a CanonicalTableCache, graph.json and the records file of a GraphCache
CachePresent ==
    IF cache_kind = "canonical"
    THEN \/ files["canonical_plays.parquet"] # 0 /\ files["canonical_tracks.parquet"] # 0
         \/ files["canonical_plays.csv"] # 0 /\ files["canonical_tracks.csv"] # 0
    ELSE files["graph.json"] # 0 /\ files["canonical_plays.parquet"] # 0

\* one load_or_build call against the cache_dir it found
BuildFnIffForcedOrMissing ==
    loads' = loads + 1 =>
        /\ last_load'.built <=> (last_load'.force \/ ~CachePresent)
        /\ build_calls' = build_calls + (IF last_load'.built THEN 1 ELSE 0)
        /\ last_persisted.version > 0 => (last_load'.built <=> last_load'.force)

\* C21: load_or_build calls build_fn iff force is True or the cache files are
\* not both present; once a load_or_build has built and persisted, a later
\* call with force = False does not call build_fn and one with force = True
\* calls it exactly once.
C21_BuildOnlyWhenForcedOrMissing == [][BuildFnIffForcedOrMissing]_vars

\* C21 witness: a first load_or_build built and persisted, a second one with
\* force = False was served from the files.
C21_Witness ==
    /\ prog = "cache"
    /\ loads = 2
    /\ build_calls = 1
    /\ last_persisted.version = 1
    /\ ~last_load.force
    /\ last_load.hit
    /\ ~last_load.built

\* C28: in a CanonicalTableCache, once a load_or_build with force = True has
\* rebuilt and persisted its result, as parquet or as csv, a load_or_build
\* with force = False that follows returns the tables of that rebuild.
C28_LoadReturnsLastRebuild ==
    (/\ prog = "cache"
     /\ cache_kind = "canonical"
     /\ last_persisted.force
     /\ ~last_load.force
     /\ last_load.hit) =>
        last_load.returned = Some(<<last_persisted.version, last_persisted.version>>)

-----------------------------------------------------------------------------
(* Properties of the consolidation of build_album_graph *)

\* the edge table holds the pair (row, col)
InTable(a, p) == \E i \in DOMAIN a : a[i].row = p[1] /\ a[i].col = p[2]

\* C22: whatever the split of the pair observations into consolidation
\* batches, a pair whose observations over the whole stream number at least
\* min_weight is in the edge table that reaches the final threshold.
C22_PruningIsConservative ==
    (prog = "album" /\ pc = "post") =>
        \A p \in DOMAIN observations :
            observations[p] >= min_weight => InTable(acc, p)

\* the running total after the pair observations xs are merged into it
Merged(a, xs) == LoopConsolidation(a, xs, min_weight, unweighted)

\* C23: the consolidation merge is associative and commutative: the pair
\* observations at hand, merged into the running total as one batch, as two
\* batches split at any place, or as the two batches in the other order, give
\* the same weight table.
C23_MergeIsAssociativeCommutative ==
    (prog = "album" /\ pc = "edges") =>
        \A k \in 0..Len(batch) :
            LET x == SubSeq(batch, 1, k)
                y == SubSeq(batch, k + 1, Len(batch))
            IN  /\ Merged(Merged(acc, x), y) = Merged(acc, batch)
                /\ Merged(Merged(acc, x), y) = Merged(Merged(acc, y), x)

-----------------------------------------------------------------------------
(* Properties of the scan pass of the entity builders *)

\* the edge-tag set that the scan holds for a record id, {} when it holds none
AlbumTags(net, id) ==
    IF \E i \in DOMAIN net : net[i].record_id = id
    THEN net[CHOOSE i \in DOMAIN net : net[i].record_id = id].tags
    ELSE {}

\* the edge-tag set that the scan holds for an artist, {} when it holds none
ArtistTags(aat, key) ==
    IF \E i \in DOMAIN aat : aat[i].key = key
    THEN aat[CHOOSE i \in DOMAIN aat : aat[i].key = key].tags
    ELSE {}

\* C24: in the scan pass, a record with a title, a usable artist and edge
\* tags adds its edge tags to those its entity key has so far: the entity's
\* set is the union over all its records, in build_album_graph and in
\* build_artist_graph.
C24_ScanMergesTags ==
    /\ (prog = "album" /\ pc = "scan") =>
          \A tval \in Titles \ {""}, aval \in Artists, edge_tags \in EdgeTagLists \ {<<>>} :
              ~is_skip_artist(aval) =>
                  AlbumTags(NodeEdgeTagsAfterRow(node_edge_tags, node_meta,
                                                 tval, aval, edge_tags),
                            RecordId(tval, aval))
                      = AlbumTags(node_edge_tags, RecordId(tval, aval)) \cup Range(edge_tags)
    /\ (prog = "artist" /\ artist_pc = "scan") =>
          \A aval \in ArtistNames \ {""}, edge_tags \in ArtistTagLists \ {<<>>} :
              ~is_skip_artist(aval) =>
                  ArtistTags(ArtistTagsAfterRow(artist_all_tags, aval, edge_tags), aval)
                      = ArtistTags(artist_all_tags, aval) \cup Range(edge_tags)

-----------------------------------------------------------------------------
(* Properties of the links of the entity graphs *)

\* every link runs from the smaller key to the larger one in the order
\* rank, and no two links join the same two keys
AscendingAndUnique(links, rank) ==
    /\ \A i \in DOMAIN links : rank[links[i].source] < rank[links[i].target]
    /\ \A i, j \in DOMAIN links :
          i # j => {links[i].source, links[i].target} # {links[j].source, links[j].target}

\* C25: every link returned by build_album_graph and by build_artist_graph,
\* in pairwise and in nearest-neighbour mode, has source < target in the
\* lexicographic order of the entity keys, and no unordered pair of entities
\* is in more than one link.
C25_LinksAscendingAndUnique ==
    /\ (prog = "album" /\ album_graph.built) =>
          AscendingAndUnique(album_graph.links, RecordRankOf)
    /\ (prog = "artist" /\ artist_graph.built) =>
          AscendingAndUnique(artist_graph.links, ArtistRankOf)

\* C25 witness: a nearest-neighbour graph of three artists with two links.
C25_Witness ==
    /\ prog = "artist"
    /\ artist_graph.built
    /\ max_edges_per_node > 0
    /\ Len(keys_sorted) = 3
    /\ Len(artist_graph.links) = 2

-----------------------------------------------------------------------------
(* Properties of the node cap of the entity builders (SpecCap) *)

\* the first n entities in the order (number of distinct edge tags
\* descending, key ascending); tags[k] is the tag set of key k
FirstByTagsThenKey(keys, tags, rank, n) ==
    IF Cardinality(keys) <= n THEN keys
    ELSE CHOOSE K \in SUBSET keys :
            /\ Cardinality(K) = n
            /\ \A k \in K, j \in keys \ K :
                  \/ Cardinality(tags[k]) > Cardinality(tags[j])
                  \/ Cardinality(tags[k]) = Cardinality(tags[j]) /\ rank[k] < rank[j]

\* C26: with max_nodes > 0 and more entities than that, the entities kept
\* are the first max_nodes in the order (number of distinct edge tags
\* descending, entity id ascending), whatever the order of the records; a
\* discarded entity gets no integer id and is an endpoint of no link.
C26_NodeCapByTagsThenId ==
    /\ (prog = "album" /\ pc = "scan" /\ album_max_nodes > 0) =>
          LET kept == CapAlbums(node_edge_tags, album_max_nodes)
              keys == {node_edge_tags[i].record_id : i \in DOMAIN node_edge_tags}
          IN  {kept[i].record_id : i \in DOMAIN kept}
                  = FirstByTagsThenKey(keys, [k \in keys |-> AlbumTags(node_edge_tags, k)],
                                       RecordRankOf, album_max_nodes)
    /\ (prog = "artist" /\ artist_pc = "scan" /\ artist_max_nodes > 0) =>
          LET kept == CapArtists(artist_all_tags, artist_max_nodes)
              keys == {artist_all_tags[i].key : i \in DOMAIN artist_all_tags}
          IN  {kept[i].key : i \in DOMAIN kept}
                  = FirstByTagsThenKey(keys, [k \in keys |-> ArtistTags(artist_all_tags, k)],
                                       ArtistRankOf, artist_max_nodes)
    /\ (prog = "album" /\ album_max_nodes > 0 /\ pc # "scan") =>
          /\ Len(int_to_str) <= album_max_nodes
          /\ \A i \in DOMAIN album_graph.links :
                {album_graph.links[i].source, album_graph.links[i].target}
                    \subseteq Range(int_to_str)
    /\ (prog = "artist" /\ artist_max_nodes > 0 /\ artist_pc # "scan") =>
          /\ Len(keys_sorted) <= artist_max_nodes
          /\ \A i \in DOMAIN artist_graph.links :
                {artist_graph.links[i].source, artist_graph.links[i].target}
                    \subseteq Range(keys_sorted)

-----------------------------------------------------------------------------
(* Properties of first_seen across points and links (SpecSeen) *)

\* first_seen of the point with this id, None when the point has none
PointFirstSeen(g, id) ==
    IF \E i \in DOMAIN g.points : g.points[i].id = id
    THEN g.points[CHOOSE i \in DOMAIN g.points : g.points[i].id = id].first_seen
    ELSE None

\* C30: in every graph returned by build(), a link that carries first_seen
\* has both endpoint points carrying first_seen, and each endpoint's
\* first_seen is at most the link's.
C30_EndpointsSeenBeforeLink ==
    graph.built =>
        \A i \in DOMAIN graph.links :
            graph.links[i].first_seen # None =>
                \A id \in {graph.links[i].source, graph.links[i].target} :
                    /\ PointFirstSeen(graph, id) # None
                    /\ PointFirstSeen(graph, id)[1] <= graph.links[i].first_seen[1]

\* C30 witness: a returned link first seen at 2 with an endpoint first seen
\* at 1.
C30_Witness ==
    /\ graph.built
    /\ \E i \in DOMAIN graph.links :
          /\ graph.links[i].first_seen = Some(2)
          /\ PointFirstSeen(graph, graph.links[i].source) = Some(1)

\* the patches of a plays table
Patches(table) == IF table = None THEN {} ELSE table[1]

\* C27: once _patch_canonical_tables has completed for a correction, the
\* module-level cache is never marked loaded while it holds a table without
\* that patch, and every tracks request that began after the completion
\* answers from a table that includes the patch.
C27_CacheInvalidatedOnWrite ==
    /\ (canonical_plays_loaded /\ canonical_plays # None)
          => completed \subseteq Patches(canonical_plays)
    /\ \A t \in ThreadIds :
          (threads[t].op = "tracks" /\ threads[t].pc = "done" /\ threads[t].data # None)
              => threads[t].since \subseteq Patches(threads[t].data)

\* the pending CSV has no two rows with the same track_id
NoDuplicateRows ==
    \A i, j \in 1..Len(pending_csv) : pending_csv[i] = pending_csv[j] => i = j

\* C29: a correction whose submit answered ok, and for which no approve or
\* deny request has begun since, has a row in the pending CSV; and the pending
\* CSV never holds two rows with the same track_id.
C29_PendingStoreKeepsSubmitted ==
    /\ \A track_id \in acked : track_id \in Range(pending_csv)
    /\ NoDuplicateRows

=============================================================================
